---- MODULE Spec2Model ----
(***************************************************************************)
(* Verification model of the garbage-collector core: zone-group ownership, *)
(* the incremental driver entry points, the GCMarker mark stack, the       *)
(* pre/post write barriers and the remembered set.                         *)
(***************************************************************************)
EXTENDS Integers, Sequences, FiniteSets, TLC

(* ------------------------------ bounds -------------------------------- *)
NumContexts == 3
MaxEnterCount == 6

Contexts == 1..NumContexts
NoContext == 0

(* ======================================================================= *)
(* ZoneGroup: exclusive ownership by one cooperating context               *)
(* ======================================================================= *)
VARIABLES
    ownerContext_,        \* ZoneGroup::ownerContext_ (NoContext is nullptr)
    enterCount,           \* ZoneGroup::enterCount
    useExclusiveLocking,  \* ZoneGroup::useExclusiveLocking
    cxpc,                 \* per context: "out" or "yield" (inside enter's wait loop)
    inside,               \* per context: completed enter calls not yet left
    crashed               \* MOZ_RELEASE_ASSERT failed in enter

zgvars == <<ownerContext_, enterCount, useExclusiveLocking, cxpc, inside, crashed>>

\* An enter that counts the entry without recording the owner.
acquire_NoOwner(cx) ==
    /\ enterCount' = enterCount + 1
    /\ inside' = [inside EXCEPT ![cx] = @ + 1]
    /\ cxpc' = [cxpc EXCEPT ![cx] = "out"]
    /\ UNCHANGED <<ownerContext_, useExclusiveLocking, crashed>>

\* The tail of ZoneGroup::enter once the group is free (or already owned).
acquire(cx) ==
    /\ ownerContext_' = cx
    /\ enterCount' = enterCount + 1
    /\ inside' = [inside EXCEPT ![cx] = @ + 1]
    /\ cxpc' = [cxpc EXCEPT ![cx] = "out"]
    /\ UNCHANGED <<useExclusiveLocking, crashed>>

\* A faulty enter that takes the group without waiting for the owner to leave.
enter_NoWait(cx) ==
    /\ ~crashed
    /\ cxpc[cx] = "out"
    /\ enterCount < MaxEnterCount
    /\ acquire(cx)

\* ZoneGroup::enter(cx), up to its first yield.
enter(cx) ==
    /\ ~crashed
    /\ cxpc[cx] = "out"
    /\ enterCount < MaxEnterCount
    /\ IF ownerContext_ = cx
         THEN acquire(cx)
         ELSE IF useExclusiveLocking /\ ownerContext_ # NoContext
           THEN /\ cxpc' = [cxpc EXCEPT ![cx] = "yield"]
                /\ UNCHANGED <<ownerContext_, enterCount, useExclusiveLocking, inside, crashed>>
           ELSE IF ownerContext_ # NoContext
             THEN /\ crashed' = TRUE
                  /\ UNCHANGED <<ownerContext_, enterCount, useExclusiveLocking, cxpc, inside>>
             ELSE acquire(cx)

\* A wait loop that tests for the wrong owner and so never ends.
enterResume_WaitsForSelf(cx) ==
    /\ ~crashed
    /\ cxpc[cx] = "yield"
    /\ ownerContext_ = cx
    /\ acquire(cx)

\* ZoneGroup::enter(cx) resumed after cx->yieldToEmbedding(): the loop test again.
enterResume(cx) ==
    /\ ~crashed
    /\ cxpc[cx] = "yield"
    /\ ownerContext_ = NoContext
    /\ acquire(cx)

\* A faulty leave that gives the group up at once, whatever the count.
leave_ReleasesAtOnce(cx) ==
    /\ ~crashed
    /\ cxpc[cx] = "out"
    /\ inside[cx] > 0
    /\ ownerContext_ = cx
    /\ enterCount > 0
    /\ enterCount' = enterCount - 1
    /\ ownerContext_' = NoContext
    /\ inside' = [inside EXCEPT ![cx] = @ - 1]
    /\ UNCHANGED <<useExclusiveLocking, cxpc, crashed>>

\* ZoneGroup::leave(), called by the context that is inside the group.
leave(cx) ==
    /\ ~crashed
    /\ cxpc[cx] = "out"
    /\ inside[cx] > 0
    /\ ownerContext_ = cx
    /\ enterCount > 0
    /\ enterCount' = enterCount - 1
    /\ ownerContext_' = IF enterCount - 1 = 0 THEN NoContext ELSE ownerContext_
    /\ inside' = [inside EXCEPT ![cx] = @ - 1]
    /\ UNCHANGED <<useExclusiveLocking, cxpc, crashed>>

\* ZoneGroup::setUseExclusiveLocking(), called by NewCompartment for the system group.
setUseExclusiveLocking ==
    /\ ~crashed
    /\ ~useExclusiveLocking
    /\ useExclusiveLocking' = TRUE
    /\ UNCHANGED <<ownerContext_, enterCount, cxpc, inside, crashed>>

(* --------------------------- collector driver -------------------------- *)
VARIABLES
    incrementalState,  \* GCRuntime::incrementalState
    lastCall           \* the driver entry point called last

dvars == <<incrementalState, lastCall>>

\* enum class State (GCSTATES), in declaration order.
GCSTATES == <<"NotActive", "MarkRoots", "Mark", "Sweep", "Finalize", "Compact", "Decommit">>

\* GCRuntime::state
state == incrementalState

\* A driver entry point called by the context that owns the zone group; the
\* body of every entry point is empty.
DriverCall(cx, name, newState) ==
    /\ ~crashed
    /\ cxpc[cx] = "out"
    /\ ownerContext_ = cx
    /\ lastCall' = name
    /\ incrementalState' = newState
    /\ UNCHANGED zgvars

\* JS::GCForReason
GCForReason(cx) == DriverCall(cx, "GCForReason", incrementalState)

\* StartIncrementalGC entering the sweep phase directly.
StartIncrementalGC_JumpToSweep(cx) == DriverCall(cx, "StartIncrementalGC", "Sweep")

\* JS::StartIncrementalGC
StartIncrementalGC(cx) == DriverCall(cx, "StartIncrementalGC", incrementalState)

\* JS::IncrementalGCSlice
IncrementalGCSlice(cx) == DriverCall(cx, "IncrementalGCSlice", incrementalState)

\* JS::FinishIncrementalGC
FinishIncrementalGC(cx) == DriverCall(cx, "FinishIncrementalGC", incrementalState)

\* JS::AbortIncrementalGC
AbortIncrementalGC(cx) == DriverCall(cx, "AbortIncrementalGC", incrementalState)

\* GCRuntime::minorGC
minorGC(cx) == DriverCall(cx, "minorGC", incrementalState)

(* ======================================================================= *)
(* Heap, GCMarker mark stack, write barriers                               *)
(* ======================================================================= *)
NumCells == 2
NumSlots == 2
NumRoots == 2
MaxCapacity == 4
MaxWrites == 2
MaxPushCount == 2

NON_INCREMENTAL_MARK_STACK_BASE_CAPACITY == 4096
ValueArrayWords == 3

Cells == 1..NumCells
Null == 0
SlotIdx == 1..NumSlots

VARIABLES
    slots,        \* NativeObject slots: slots[c][i] is a cell or Null
    roots,        \* root locations traced by TraceRoot
    markBits,     \* cells whose mark bit is set in the marking scheme
    storeBuffer,  \* remembered slot addresses <<cell, slot>>
    started,      \* GCMarker::started (between start() and stop())
    rootsTraced,  \* roots already handed to the marker in this collection
    stack,        \* MarkStack contents, bottom first
    capacity,     \* MarkStack::capacity()
    mpc,          \* position inside drainMarkStack / processMarkStackTop
    obj,          \* processMarkStackTop: JSObject* obj
    vp,           \* processMarkStackTop: HeapSlot* vp (slot index)
    drainResult,  \* value returned by the last drainMarkStack call
    delayed,      \* cells recorded for delayed marking
    overflowed,   \* cells whose push failed and that were not scanned since
    pushCount,    \* per cell: pointer entries pushed in this collection
    lastMark,     \* the last GCMarker::mark call: cell, mark bit before, result
    snapshot,     \* cells reachable from the traced roots when the current slice began
    overwritten,  \* previous slot values overwritten while the zone was marking
    writes        \* number of mutator slot writes so far

hvars == <<slots, roots, markBits, storeBuffer, started, rootsTraced, stack,
           capacity, mpc, obj, vp, drainResult, delayed, overflowed, pushCount,
           lastMark, snapshot, overwritten, writes>>

Min(a, b) == IF a < b THEN a ELSE b

\* The cells of the nursery (IsInsideNursery); every other cell is tenured.
nurseryCells == {NumCells}

IsInsideNursery(c) == c \in nurseryCells

\* Cells reachable from a set of cells through the slots.
RECURSIVE ReachFrom(_, _)
ReachFrom(seen, sl) ==
    LET next == seen \cup ({sl[c][i] : c \in seen, i \in SlotIdx} \ {Null})
    IN IF next = seen THEN seen ELSE ReachFrom(next, sl)

Reachable == ReachFrom({roots[r] : r \in DOMAIN roots}, slots)

(* ------------------------------ MarkStack ------------------------------ *)
ObjectEntry(c) == [tag |-> "ObjectTag", ptr |-> c, start |-> 0]
ValueArrayEntry(o, s) == [tag |-> "ValueArrayTag", ptr |-> o, start |-> s]
SavedValueArrayEntry(o, s) == [tag |-> "SavedValueArrayTag", ptr |-> o, start |-> s]

TagIsArrayTag(tag) == tag \in {"ValueArrayTag", "SavedValueArrayTag"}

EntryWords(e) == IF TagIsArrayTag(e.tag) THEN ValueArrayWords ELSE 1

RECURSIVE position(_)
position(stk) == IF stk = <<>> THEN 0 ELSE EntryWords(stk[1]) + position(Tail(stk))

\* MarkStack::setBaseCapacity for JSGC_MODE_GLOBAL, clamped to maxCapacity_.
baseCapacity == Min(NON_INCREMENTAL_MARK_STACK_BASE_CAPACITY, MaxCapacity)

\* MarkStack::enlarge: the capacity after growing, or 0 when it cannot grow.
enlarge(cap, count) ==
    LET newCapacity == Min(MaxCapacity, cap * 2)
    IN IF newCapacity < cap + count THEN 0 ELSE newCapacity

\* MarkStack::ensureSpace: the capacity that holds count more words, or 0.
ensureSpace(stk, cap, count) ==
    IF position(stk) + count <= cap THEN cap ELSE enlarge(cap, count)

\* MarkStack::push: <<stack, capacity, pushed>>.
push(stk, cap, e) ==
    LET c2 == ensureSpace(stk, cap, EntryWords(e))
    IN IF c2 = 0 THEN <<stk, cap, FALSE>> ELSE <<Append(stk, e), c2, TRUE>>

isEmpty(stk) == stk = <<>>

\* GCMarker::hasDelayedChildren
hasDelayedChildren == delayed # {}

\* GCMarker::delayMarkingChildren(thing): the set recorded afterwards.
delayMarkingChildren(d, thing) == d

\* GCMarker::markDelayedChildren(budget): the set left, always reporting true.
markDelayedChildren(d) == d

\* SliceBudget::checkOverBudget
checkOverBudget == FALSE

\* SliceBudget::isOverBudget
isOverBudget == checkOverBudget

\* TenuredCell::isMarkedAny through IsMarkedCell
isMarkedAny(c) == c \in markBits

\* TenuredCell::markIfUnmarked: <<mark bits afterwards, result>>
markIfUnmarked(bits, c) == <<bits, TRUE>>

\* GCMarker::mark
mark(bits, c) == markIfUnmarked(bits, c)

\* The zone is marking while the marker runs (GCMarker::checkZone).
isGCMarking == started

Saturate(n) == Min(n, MaxPushCount)

NoMark == [cell |-> Null, wasMarked |-> FALSE, result |-> FALSE]

\* GCMarker::pushTaggedPtr / pushValueArray applied to entry e of cell c:
\* the stack is extended, or the cell is handed to delayMarkingChildren.
pushEntry(stk, c, e) ==
    LET r == push(stk, capacity, e)
    IN /\ stack' = r[1]
       /\ capacity' = r[2]
       /\ delayed' = IF r[3] THEN delayed ELSE delayMarkingChildren(delayed, c)
       /\ overflowed' = IF r[3] THEN overflowed ELSE overflowed \cup {c}
       /\ pushCount' = IF r[3] /\ e.tag = "ObjectTag"
                         THEN [pushCount EXCEPT ![c] = Saturate(@ + 1)]
                         ELSE pushCount

\* ---- zones being collected and their weak-key tables ----
NumZones == 2
MaxWeakKeys == 1

\* The zones of the runtime, as ZonesIter(rt, WithAtoms) walks them.
Zones == 1..NumZones

VARIABLES
    collecting,   \* per zone: Zone::isCollectingFromAnyThread()
    gcWeakKeys,   \* per zone: the number of entries of Zone::gcWeakKeys()
    lastIter      \* the last GCZonesIter loop: the zones it visited, in order, and
                  \* the zones that were being collected when it ran

kvars == <<collecting, gcWeakKeys, lastIter>>

\* ZonesIter::done, the iterator standing at the i-th zone.
ZonesIter_done(i) == i > NumZones

\* GCZonesIter::next: do { zone.next(); } while (!zone.done());
RECURSIVE GCZonesIter_next(_)
GCZonesIter_next(i) ==
    LET j == i + 1
    IN IF ~ZonesIter_done(j) THEN GCZonesIter_next(j) ELSE j

\* GCZonesIter::GCZonesIter: the position after construction.
GCZonesIter_ctor == IF ~collecting[1] THEN GCZonesIter_next(1) ELSE 1

\* for (GCZonesIter zone(runtime()); !zone.done(); zone.next()): the zones the
\* loop body runs for, in order.
RECURSIVE GCZonesIter_loop(_)
GCZonesIter_loop(i) ==
    IF ZonesIter_done(i) THEN <<>> ELSE <<i>> \o GCZonesIter_loop(GCZonesIter_next(i))

\* The loop of GCMarker::stop and GCMarker::leaveWeakMarkingMode: the weak-key
\* table of every zone the iterator yields is cleared.
clearWeakKeys ==
    LET visited == GCZonesIter_loop(GCZonesIter_ctor)
    IN /\ gcWeakKeys' = [z \in Zones |->
             IF \E k \in DOMAIN visited : visited[k] = z THEN 0 ELSE gcWeakKeys[z]]
       /\ lastIter' = [visited |-> visited, collecting |-> {z \in Zones : collecting[z]}]
       /\ UNCHANGED collecting

\* The collector selects a zone for collection or releases it.
setCollecting(z, b) ==
    /\ collecting[z] # b
    /\ collecting' = [collecting EXCEPT ![z] = b]
    /\ UNCHANGED <<gcWeakKeys, lastIter>>

\* Weak marking enters a key into the zone's weak-key table.
addWeakKey(z) ==
    /\ gcWeakKeys[z] < MaxWeakKeys
    /\ gcWeakKeys' = [gcWeakKeys EXCEPT ![z] = @ + 1]
    /\ UNCHANGED <<collecting, lastIter>>

\* GCMarker::leaveWeakMarkingMode
leaveWeakMarkingMode == clearWeakKeys

\* MarkStack::reset followed by the lazily repeated init(): empty, base capacity.
stackReset ==
    /\ stack' = <<>>
    /\ capacity' = baseCapacity

\* GCMarker::start
start ==
    /\ mpc = "idle"
    /\ ~started
    /\ started' = TRUE
    /\ rootsTraced' = {}
    /\ pushCount' = [c \in Cells |-> 0]
    /\ overwritten' = {}
    /\ UNCHANGED <<slots, roots, markBits, storeBuffer, stack, capacity, mpc, obj, vp,
                   drainResult, delayed, overflowed, lastMark, snapshot, writes>>

\* GCMarker::stop (asserts isDrained and started): the stack is reset and the
\* weak-key tables of the zones being collected are cleared.
stop ==
    /\ mpc = "idle"
    /\ started
    /\ isEmpty(stack) /\ ~hasDelayedChildren
    /\ started' = FALSE
    /\ stackReset
    /\ clearWeakKeys
    /\ UNCHANGED <<slots, roots, markBits, storeBuffer, rootsTraced, mpc, obj, vp,
                   drainResult, delayed, overflowed, pushCount, lastMark, snapshot,
                   overwritten, writes>>

\* GCMarker::reset
reset ==
    /\ mpc = "idle"
    /\ started
    /\ stackReset
    /\ UNCHANGED <<slots, roots, markBits, storeBuffer, started, rootsTraced, mpc, obj, vp,
                   drainResult, delayed, overflowed, pushCount, lastMark, snapshot,
                   overwritten, writes>>

\* TraceRoot on the marking tracer: DispatchToTracer -> DoMarking -> traverse
\* -> markAndPush(thing).
TraceRoot(r) ==
    /\ mpc = "idle"
    /\ started
    /\ r \notin rootsTraced
    /\ rootsTraced' = rootsTraced \cup {r}
    /\ LET thing == roots[r]
           m == mark(markBits, thing)
       IN /\ markBits' = m[1]
          /\ lastMark' = [cell |-> thing, wasMarked |-> isMarkedAny(thing), result |-> m[2]]
          /\ IF m[2]
               THEN pushEntry(stack, thing, ObjectEntry(thing))
               ELSE UNCHANGED <<stack, capacity, delayed, overflowed, pushCount>>
    /\ UNCHANGED <<slots, roots, storeBuffer, started, mpc, obj, vp, drainResult,
                   snapshot, overwritten, writes>>

\* GCMarker::saveValueRanges: every ValueArrayTag entry becomes a
\* SavedValueArrayTag entry holding the slot index.
saveValueRanges(stk) ==
    [k \in DOMAIN stk |->
        IF stk[k].tag = "ValueArrayTag"
          THEN SavedValueArrayEntry(stk[k].ptr, stk[k].start)
          ELSE stk[k]]

\* Return from processMarkStackTop into the inner loop of drainMarkStack:
\* over budget -> saveValueRanges and return false, otherwise loop again.
returnToDrain(stk) ==
    IF isOverBudget
      THEN /\ stack' = saveValueRanges(stk)
           /\ drainResult' = "false"
           /\ mpc' = "idle"
      ELSE /\ stack' = stk
           /\ drainResult' = drainResult
           /\ mpc' = "loop"

\* GCMarker::drainMarkStack, entry: a slice of marking begins.
drainMarkStack ==
    /\ mpc = "idle"
    /\ started
    /\ snapshot' = IF rootsTraced = 1..NumRoots THEN Reachable ELSE {}
    /\ IF isOverBudget
         THEN /\ drainResult' = "false"
              /\ mpc' = "idle"
         ELSE /\ drainResult' = "none"
              /\ mpc' = "loop"
    /\ UNCHANGED <<slots, roots, markBits, storeBuffer, started, rootsTraced, stack,
                   capacity, obj, vp, delayed, overflowed, pushCount, lastMark,
                   overwritten, writes>>

\* drainMarkStack reporting completion without looking at the stack.
drainLoop_IgnoreStack ==
    /\ mpc = "loop"
    /\ drainResult' = "true"
    /\ mpc' = "idle"
    /\ UNCHANGED <<slots, roots, markBits, storeBuffer, started, rootsTraced, stack,
                   capacity, obj, vp, delayed, overflowed, pushCount, lastMark, snapshot,
                   overwritten, writes>>

\* drainMarkStack, one turn of the for(;;) loop: pop the top entry
\* (processMarkStackTop's switch), or finish, or run markDelayedChildren.
drainLoop ==
    /\ mpc = "loop"
    /\ IF ~isEmpty(stack)
         THEN LET top == stack[Len(stack)]
                  rest == SubSeq(stack, 1, Len(stack) - 1)
              IN CASE top.tag = "ValueArrayTag" ->
                        /\ stack' = rest
                        /\ obj' = top.ptr
                        /\ vp' = top.start
                        /\ mpc' = "scan_value_array"
                        /\ UNCHANGED <<capacity, drainResult, delayed, overflowed, pushCount>>
                   [] top.tag = "ObjectTag" ->
                        /\ stack' = rest
                        /\ obj' = top.ptr
                        /\ mpc' = "scan_obj"
                        /\ UNCHANGED <<vp, capacity, drainResult, delayed, overflowed, pushCount>>
                   [] top.tag = "SavedValueArrayTag" ->
                        \* restoreValueArray succeeds on a native object
                        LET r == push(rest, capacity, ValueArrayEntry(top.ptr, top.start))
                        IN /\ returnToDrain(r[1])
                           /\ capacity' = r[2]
                           /\ delayed' = IF r[3] THEN delayed
                                         ELSE delayMarkingChildren(delayed, top.ptr)
                           /\ overflowed' = IF r[3] THEN overflowed
                                            ELSE overflowed \cup {top.ptr}
                           /\ UNCHANGED <<obj, vp, pushCount>>
         ELSE IF ~hasDelayedChildren
           THEN /\ drainResult' = "true"
                /\ mpc' = "idle"
                /\ UNCHANGED <<stack, capacity, obj, vp, delayed, overflowed, pushCount>>
           ELSE /\ delayed' = markDelayedChildren(delayed)
                /\ UNCHANGED <<stack, capacity, obj, vp, drainResult, mpc, overflowed,
                               pushCount>>
    /\ UNCHANGED <<slots, roots, markBits, storeBuffer, started, rootsTraced, lastMark,
                   snapshot, overwritten, writes>>

\* processMarkStackTop, label scan_obj.
scan_obj ==
    /\ mpc = "scan_obj"
    /\ IF isOverBudget
         THEN \* repush(obj); return
              LET r == push(stack, capacity, ObjectEntry(obj))
              IN /\ returnToDrain(r[1])
                 /\ capacity' = r[2]
                 /\ delayed' = IF r[3] THEN delayed ELSE delayMarkingChildren(delayed, obj)
                 /\ overflowed' = IF r[3] THEN overflowed ELSE overflowed \cup {obj}
                 /\ pushCount' = IF r[3] THEN [pushCount EXCEPT ![obj] = Saturate(@ + 1)]
                                 ELSE pushCount
                 /\ UNCHANGED vp
         ELSE \* vp = nobj->fixedSlots(); end = vp + nslots; goto scan_value_array
              /\ vp' = 1
              /\ mpc' = "scan_value_array"
              /\ overflowed' = overflowed \ {obj}
              /\ UNCHANGED <<stack, capacity, drainResult, delayed, pushCount>>
    /\ UNCHANGED <<slots, roots, markBits, storeBuffer, started, rootsTraced, obj,
                   lastMark, snapshot, overwritten, writes>>

\* processMarkStackTop, label scan_value_array: one turn of while (vp != end).
scan_value_array ==
    /\ mpc = "scan_value_array"
    /\ IF vp = NumSlots + 1
         THEN /\ returnToDrain(stack)
              /\ UNCHANGED <<markBits, capacity, obj, vp, delayed, overflowed, pushCount,
                             lastMark>>
         ELSE IF isOverBudget
           THEN LET r == push(stack, capacity, ValueArrayEntry(obj, vp))
                IN /\ returnToDrain(r[1])
                   /\ capacity' = r[2]
                   /\ delayed' = IF r[3] THEN delayed ELSE delayMarkingChildren(delayed, obj)
                   /\ overflowed' = IF r[3] THEN overflowed ELSE overflowed \cup {obj}
                   /\ UNCHANGED <<markBits, obj, vp, pushCount, lastMark>>
           ELSE LET obj2 == slots[obj][vp]
                    m == mark(markBits, obj2)
                IN IF obj2 # Null
                     THEN /\ markBits' = m[1]
                          /\ lastMark' = [cell |-> obj2, wasMarked |-> isMarkedAny(obj2),
                                          result |-> m[2]]
                          /\ IF m[2]
                               THEN /\ pushEntry(stack, obj, ValueArrayEntry(obj, vp + 1))
                                    /\ obj' = obj2
                                    /\ mpc' = "scan_obj"
                                    /\ UNCHANGED <<vp, drainResult>>
                               ELSE /\ vp' = vp + 1
                                    /\ UNCHANGED <<stack, capacity, obj, mpc, drainResult,
                                                   delayed, overflowed, pushCount>>
                     ELSE /\ vp' = vp + 1
                          /\ UNCHANGED <<markBits, stack, capacity, obj, mpc, drainResult,
                                         delayed, overflowed, pushCount, lastMark>>
    /\ UNCHANGED <<slots, roots, storeBuffer, started, rootsTraced, snapshot, overwritten,
                   writes>>

(* --------------------------- write barriers ---------------------------- *)
\* TenuredCell::writeBarrierPre(thing): the mark bits afterwards.
writeBarrierPre(bits, thing) == bits

\* standardWriteBarrier(thread, dst, src): the store buffer afterwards; the
\* slot address is remembered when a tenured cell receives a nursery pointer.
standardWriteBarrier(sb, c, i, next) ==
    IF ~IsInsideNursery(c) /\ next # Null /\ IsInsideNursery(next)
      THEN sb \cup {<<c, i>>}
      ELSE sb

\* writeBarrierPost with the barrier call left out.
writeBarrierPost_NoBarrier(sb, c, i, prior, next) == sb

\* TenuredCell::writeBarrierPost(cellp, prior, next): the store buffer afterwards.
writeBarrierPost(sb, c, i, prior, next) == standardWriteBarrier(sb, c, i, next)

\* A mutator store of next into slot i of cell c, between collector steps:
\* pre-barrier on the previous value, the store, post-barrier on the new value.
WriteSlot(c, i, next) ==
    /\ mpc = "idle"
    /\ writes < MaxWrites
    /\ slots[c][i] # next
    /\ LET prior == slots[c][i]
       IN /\ markBits' = IF prior # Null THEN writeBarrierPre(markBits, prior) ELSE markBits
          /\ overwritten' = IF isGCMarking /\ prior # Null
                              THEN overwritten \cup {prior}
                              ELSE overwritten
          /\ slots' = [slots EXCEPT ![c][i] = next]
          /\ storeBuffer' = writeBarrierPost(storeBuffer, c, i, prior, next)
    /\ writes' = writes + 1
    /\ UNCHANGED <<roots, started, rootsTraced, stack, capacity, mpc, obj, vp,
                   drainResult, delayed, overflowed, pushCount, lastMark, snapshot>>

\* The marking scheme of the collector sets the mark bit of a cell.
markObject(c) ==
    /\ mpc = "idle"
    /\ c \notin markBits
    /\ markBits' = markBits \cup {c}
    /\ UNCHANGED <<slots, roots, storeBuffer, started, rootsTraced, stack, capacity, mpc,
                   obj, vp, drainResult, delayed, overflowed, pushCount, lastMark,
                   snapshot, overwritten, writes>>

(* ======================================================================= *)
(* Root registries and GCRuntime::traceRuntimeCommon                       *)
(* ======================================================================= *)
NumRootIds == 3
NumTracers == 2

RootIds == 1..NumRootIds
Tracers == 1..NumTracers
NoTracer == 0

\* The root lists in the order traceStackRoots / tracePersistentRoots walk
\* them: the trace kinds (Object stands for them), Value, Traceable.
RootKinds == <<"Object", "Value", "Traceable">>

KindSet == {RootKinds[k] : k \in DOMAIN RootKinds}

VARIABLES
    stackRoots,        \* RootingContext::stackRoots_: per kind, newest Rooted first
    rootsHash,         \* GCRuntime::rootsHash (keys)
    heapRoots,         \* JSRuntime::heapRoots: per kind, list of PersistentRooted
    blackRootTracers,  \* GCRuntime::blackRootTracers
    grayRootTracer,    \* GCRuntime::grayRootTracer.op
    regOrder,          \* the registered roots, in order of registration
    removed,           \* persistent roots removed and not registered again
    blackRegistered,   \* tracers handed to addBlackRootsTracer and not removed
    grayRegistered,    \* tracer handed to setGrayRootsTracer
    traced,            \* "no", or how the root trace that just returned was called
    visited,           \* the roots presented to the tracer by that trace, in order
    tracersCalled      \* the embedding tracers called by that trace, in order

rootvars == <<stackRoots, rootsHash, heapRoots, blackRootTracers, grayRootTracer,
              regOrder, removed, blackRegistered, grayRegistered, traced, visited,
              tracersCalled>>

Range(f) == {f[k] : k \in DOMAIN f}

\* Every order in which the entries of a hash table can be enumerated.
Orders(S) == {f \in [1..Cardinality(S) -> S] : Range(f) = S}

RECURSIVE Flatten(_)
Flatten(ss) == IF ss = <<>> THEN <<>> ELSE Head(ss) \o Flatten(Tail(ss))

Without(seq, x) == SelectSeq(seq, LAMBDA y : y # x)

registered ==
    rootsHash \cup UNION {Range(stackRoots[k]) : k \in KindSet}
              \cup UNION {Range(heapRoots[k]) : k \in KindSet}

\* A change of the registries ends the period in which the last trace is current.
forgetTrace ==
    /\ traced' = "no"
    /\ visited' = <<>>
    /\ tracersCalled' = <<>>

\* JS::Rooted constructor: the new root becomes the head of its kind's list.
PushRooted(k, id) ==
    /\ id \notin registered
    /\ stackRoots' = [stackRoots EXCEPT ![k] = <<id>> \o @]
    /\ regOrder' = Append(regOrder, id)
    /\ removed' = removed \ {id}
    /\ forgetTrace
    /\ UNCHANGED <<rootsHash, heapRoots, blackRootTracers, grayRootTracer,
                   blackRegistered, grayRegistered>>

\* JS::Rooted destructor: the head of the list is unlinked.
PopRooted(k) ==
    /\ stackRoots[k] # <<>>
    /\ stackRoots' = [stackRoots EXCEPT ![k] = Tail(@)]
    /\ regOrder' = Without(regOrder, Head(stackRoots[k]))
    /\ forgetTrace
    /\ UNCHANGED <<rootsHash, heapRoots, blackRootTracers, grayRootTracer, removed,
                   blackRegistered, grayRegistered>>

\* GCRuntime::addRoot: rootsHash.put, one entry per address.
addRoot(id) ==
    /\ id \notin registered \ rootsHash
    /\ rootsHash' = rootsHash \cup {id}
    /\ regOrder' = IF id \in rootsHash THEN regOrder ELSE Append(regOrder, id)
    /\ removed' = removed \ {id}
    /\ forgetTrace
    /\ UNCHANGED <<stackRoots, heapRoots, blackRootTracers, grayRootTracer,
                   blackRegistered, grayRegistered>>

\* GCRuntime::removeRoot
removeRoot(id) ==
    /\ id \in rootsHash
    /\ rootsHash' = rootsHash \ {id}
    /\ regOrder' = Without(regOrder, id)
    /\ forgetTrace
    /\ UNCHANGED <<stackRoots, heapRoots, blackRootTracers, grayRootTracer, removed,
                   blackRegistered, grayRegistered>>

\* JS::AddPersistentRoot: insertBack on the list of the root's kind.
AddPersistentRoot(k, id) ==
    /\ id \notin registered
    /\ heapRoots' = [heapRoots EXCEPT ![k] = Append(@, id)]
    /\ regOrder' = Append(regOrder, id)
    /\ removed' = removed \ {id}
    /\ forgetTrace
    /\ UNCHANGED <<stackRoots, rootsHash, blackRootTracers, grayRootTracer,
                   blackRegistered, grayRegistered>>

\* finishPersistentRoots leaving the lists as they are.
finishPersistentRoots_KeepsLists ==
    LET gone == UNION {Range(heapRoots[k]) : k \in KindSet \ {"Traceable"}}
    IN /\ gone # {}
       /\ removed' = removed \cup gone
       /\ regOrder' = SelectSeq(regOrder, LAMBDA y : y \notin gone)
       /\ forgetTrace
       /\ UNCHANGED <<stackRoots, rootsHash, heapRoots, blackRootTracers, grayRootTracer,
                      blackRegistered, grayRegistered>>

\* JSRuntime::finishPersistentRoots: every list but the Traceable one is emptied.
finishPersistentRoots ==
    LET gone == UNION {Range(heapRoots[k]) : k \in KindSet \ {"Traceable"}}
    IN /\ gone # {}
       /\ heapRoots' = [k \in KindSet |-> IF k = "Traceable" THEN heapRoots[k] ELSE <<>>]
       /\ regOrder' = SelectSeq(regOrder, LAMBDA y : y \notin gone)
       /\ removed' = removed \cup gone
       /\ forgetTrace
       /\ UNCHANGED <<stackRoots, rootsHash, blackRootTracers, grayRootTracer,
                      blackRegistered, grayRegistered>>

\* GCRuntime::addBlackRootsTracer: reports success.
addBlackRootsTracer(t) ==
    /\ t \notin blackRegistered
    /\ blackRootTracers' = blackRootTracers
    /\ blackRegistered' = blackRegistered \cup {t}
    /\ forgetTrace
    /\ UNCHANGED <<stackRoots, rootsHash, heapRoots, grayRootTracer, regOrder, removed,
                   grayRegistered>>

\* GCRuntime::removeBlackRootsTracer
removeBlackRootsTracer(t) ==
    /\ t \in blackRegistered
    /\ blackRootTracers' = blackRootTracers
    /\ blackRegistered' = blackRegistered \ {t}
    /\ forgetTrace
    /\ UNCHANGED <<stackRoots, rootsHash, heapRoots, grayRootTracer, regOrder, removed,
                   grayRegistered>>

\* A setGrayRootsTracer that installs the tracer it is given.
setGrayRootsTracer_Installs(t) ==
    /\ t # grayRegistered
    /\ grayRootTracer' = t
    /\ grayRegistered' = t
    /\ forgetTrace
    /\ UNCHANGED <<stackRoots, rootsHash, heapRoots, blackRootTracers, regOrder, removed,
                   blackRegistered>>

\* GCRuntime::setGrayRootsTracer
setGrayRootsTracer(t) ==
    /\ t # grayRegistered
    /\ grayRootTracer' = grayRootTracer
    /\ grayRegistered' = t
    /\ forgetTrace
    /\ UNCHANGED <<stackRoots, rootsHash, heapRoots, blackRootTracers, regOrder, removed,
                   blackRegistered>>

\* TraceStackRoots: each list from its head along previous().
TraceStackRoots == Flatten([k \in DOMAIN RootKinds |-> stackRoots[RootKinds[k]]])

\* JSRuntime::tracePersistentRoots: each list from front to back.
tracePersistentRoots == Flatten([k \in DOMAIN RootKinds |-> heapRoots[RootKinds[k]]])

\* The embedding tracers called at the end of traceRuntimeCommon.
traceEmbedding(traceOrMark, minorCollecting) ==
    IF minorCollecting
      THEN <<>>
      ELSE blackRootTracers \o
           (IF grayRootTracer # NoTracer /\ traceOrMark = "TraceRuntime"
              THEN <<grayRootTracer>>
              ELSE <<>>)

traceMode(traceOrMark, minorCollecting) ==
    IF minorCollecting THEN "minor"
    ELSE IF traceOrMark = "TraceRuntime" THEN "trace" ELSE "mark"

\* traceRuntimeCommon without the loop over rootsHash.
traceRuntimeCommon_SkipHash(traceOrMark, minorCollecting, hashOrder) ==
    /\ traced' = traceMode(traceOrMark, minorCollecting)
    /\ visited' = TraceStackRoots \o tracePersistentRoots
    /\ tracersCalled' = traceEmbedding(traceOrMark, minorCollecting)
    /\ UNCHANGED <<stackRoots, rootsHash, heapRoots, blackRootTracers, grayRootTracer,
                   regOrder, removed, blackRegistered, grayRegistered>>

\* GCRuntime::traceRuntimeCommon: stack roots, rootsHash in table order,
\* persistent roots, then the embedding's tracers.
traceRuntimeCommon(traceOrMark, minorCollecting, hashOrder) ==
    /\ traced' = traceMode(traceOrMark, minorCollecting)
    /\ visited' = TraceStackRoots \o hashOrder \o tracePersistentRoots
    /\ tracersCalled' = traceEmbedding(traceOrMark, minorCollecting)
    /\ UNCHANGED <<stackRoots, rootsHash, heapRoots, blackRootTracers, grayRootTracer,
                   regOrder, removed, blackRegistered, grayRegistered>>

\* MM_MarkingDelegate::scanRoots, the root trace of a collection's marking:
\* after the purges it calls traceRuntimeCommon(_omrGCMarker, TraceRuntime, lock)
\* on the collecting thread of a global collection.
scanRoots(hashOrder) ==
    /\ traced' = "scanRoots"
    /\ visited' = TraceStackRoots \o hashOrder \o tracePersistentRoots
    /\ tracersCalled' = traceEmbedding("TraceRuntime", FALSE)
    /\ UNCHANGED <<stackRoots, rootsHash, heapRoots, blackRootTracers, grayRootTracer,
                   regOrder, removed, blackRegistered, grayRegistered>>

(* ======================================================================= *)
(* Sweeping: MM_MarkingDelegate::masterCleanupAfterGC, atom mark bitmaps   *)
(* ======================================================================= *)
MaxGcNumber == 2

\* OmrGcHelper::zone, the zone NewCompartment gives to every compartment.
OmrGcZone == 1

\* Cell::zone(): every cell reports OmrGcHelper::zone.
zoneOf(c) == OmrGcZone

\* The cells of an atom kind (atomized strings and symbols).
AtomCells == {c \in Cells : c % 2 = 1}

VARIABLES
    poisoned,     \* cells the last heap walk overwrote with 0x5E and turned into holes
    gcNumber,     \* GCRuntime::number
    sweptAt,      \* per cell: gcNumber of the cleanup whose heap walks visited it, 0 if none
    markedAtoms   \* per zone: Zone::markedAtoms(), the atoms its bitmap names

svars == <<poisoned, gcNumber, sweptAt, markedAtoms>>

\* GC_ObjectHeapIteratorAddressOrderedList over every region, dead objects
\* (holes) not included: the objects one heap walk visits.
HeapWalk_FirstObject ==
    {c \in Cells \ poisoned : \A d \in Cells \ poisoned : c <= d}

HeapWalk == Cells \ poisoned

\* MM_MarkingScheme::isMarked, as the heap walks ask it.
isMarked(c) == c \in markBits

\* The cross-zone edge graph: zone z has an edge to the zone of every referent
\* of its cells.
ZoneEdges ==
    {<<zoneOf(c), zoneOf(slots[c][i])>> :
        <<c, i>> \in {p \in HeapWalk \X SlotIdx : slots[p[1]][p[2]] # Null}}

RECURSIVE ZoneReach(_)
ZoneReach(seen) ==
    LET next == seen \cup {e[2] : e \in {f \in ZoneEdges : f[1] \in seen}}
    IN IF next = seen THEN seen ELSE ZoneReach(next)

\* Two zones lie in one strongly connected component of the zone graph.
SameSCC(z1, z2) == z2 \in ZoneReach({z1}) /\ z1 \in ZoneReach({z2})

\* ---- the finalize and poison walks ----
\* enum class AllocKind, the values the walks compare against.
OBJECT0 == 2
OBJECT16_BACKGROUND == 13
OBJECT_LIMIT == 14
OBJECT_LAST == OBJECT_LIMIT - 1
SCRIPT == 14
LAZY_SCRIPT == 15
SHAPE == 16
JITCODE == 26

\* The alloc kinds a heap is populated with: a plain object, the last object
\* kind, a script and a shape.
KindSample == {OBJECT0, OBJECT16_BACKGROUND, SCRIPT, SHAPE}

\* The kinds in OBJECT_FIRST..OBJECT_LAST: the cell is a JSObject.
IsObjectKind(kind) == 0 <= kind /\ kind <= OBJECT_LAST

VARIABLES
    allocKind,      \* per cell: Cell::getAllocKind()
    finalizeCount,  \* per cell: the finalize calls made on it so far
    sweepLog        \* what the last cleanup's finalize and poison walks did, in order

fvars == <<allocKind, finalizeCount, sweepLog>>

\* GC_ObjectHeapIteratorAddressOrderedList: the objects in address order.
RECURSIVE AddressOrder(_)
AddressOrder(S) ==
    IF S = {} THEN <<>>
    ELSE LET first == CHOOSE c \in S : \A d \in S : c <= d
         IN <<first>> \o AddressOrder(S \ {first})

\* The finalize walk's choice of finalizer for an unmarked cell of a kind.
finalizerOf(kind) ==
    IF OBJECT_LAST > kind THEN "JSObject"
    ELSE IF OBJECT_LIMIT = kind THEN "JSScript"
    ELSE IF LAZY_SCRIPT = kind THEN "LazyScript"
    ELSE IF JITCODE = kind THEN "JitCode"
    ELSE "none"

\* The second heap walk: finalize unmarked cells.
finalizeWalk ==
    LET hit(c) == ~isMarked(c) /\ finalizerOf(allocKind[c]) # "none"
        cells == SelectSeq(AddressOrder(HeapWalk), hit)
    IN [k \in DOMAIN cells |->
          [op |-> "finalize", cell |-> cells[k], marked |-> isMarked(cells[k])]]

\* The third heap walk: unmarked cells are overwritten with 0x5E.
poisonWalk ==
    LET hit(c) == ~isMarked(c)
        cells == SelectSeq(AddressOrder(HeapWalk), hit)
    IN [k \in DOMAIN cells |->
          [op |-> "poison", cell |-> cells[k], marked |-> isMarked(cells[k])]]

\* ---- weak edges ----
NumWeakEdges == 2
MaxWeakRefs == 2

\* The locations that hold weak references.
WeakEdges == 1..NumWeakEdges

VARIABLES
    weakSlot,     \* per weak edge: the cell the location points to, or Null
    gcWeakRefs,   \* per zone: Zone::gcWeakRefs(), the edges recorded for sweeping
    nulledEdges   \* the edges the last cleanup set to null

wvars == <<weakSlot, gcWeakRefs, nulledEdges>>

\* A sweep that takes every weak target to survive.
IsAboutToBeFinalizedDuringSweep_Never(c) == FALSE

\* js::gc::IsAboutToBeFinalizedDuringSweep
IsAboutToBeFinalizedDuringSweep(c) == ~isMarked(c)

\* The edges on some zone's list, as the weak sweep loop meets them.
recordedEdges == {gcWeakRefs[z][k] : <<z, k>> \in {p \in Zones \X (1..MaxWeakRefs) : p[2] <= Len(gcWeakRefs[p[1]])}}

\* The weak sweep loop's test on one recorded edge.
sweptToNull(edge) ==
    weakSlot[edge] # Null /\ IsAboutToBeFinalizedDuringSweep(weakSlot[edge])

\* GCMarker::noteWeakEdge: the edge joins the list of its target's zone.
noteWeakEdge(edge) ==
    /\ weakSlot[edge] # Null
    /\ weakSlot[edge] \notin poisoned
    /\ Len(gcWeakRefs[zoneOf(weakSlot[edge])]) < MaxWeakRefs
    /\ gcWeakRefs' = [gcWeakRefs EXCEPT ![zoneOf(weakSlot[edge])] = Append(@, edge)]
    /\ UNCHANGED <<weakSlot, nulledEdges>>

\* The mutator stores a live cell, or null, into a weak location.
writeWeakEdge(edge, c) ==
    /\ weakSlot[edge] # c
    /\ weakSlot' = [weakSlot EXCEPT ![edge] = c]
    /\ UNCHANGED <<gcWeakRefs, nulledEdges>>

\* masterCleanupAfterGC, run by the collector on the stopped world once marking
\* is complete: weak tables and the atoms table are swept for every zone, then
\* three walks over the whole heap delete the slots of, finalize and poison
\* every object that is not marked; the collection number is incremented.
masterCleanupAfterGC ==
    /\ mpc = "idle"
    /\ gcNumber < MaxGcNumber
    /\ Reachable \subseteq markBits
    /\ LET dead == {c \in HeapWalk : ~isMarked(c)}
           deleted == {c \in dead : OBJECT0 <= allocKind[c] /\ allocKind[c] <= OBJECT16_BACKGROUND}
       IN /\ slots' = [c \in Cells |->
                         IF c \in deleted THEN [i \in SlotIdx |-> Null] ELSE slots[c]]
          /\ poisoned' = poisoned \cup dead
    /\ finalizeCount' = [c \in Cells |->
           finalizeCount[c] + Cardinality({k \in DOMAIN finalizeWalk : finalizeWalk[k].cell = c})]
    /\ sweepLog' = finalizeWalk \o poisonWalk
    /\ UNCHANGED allocKind
    /\ weakSlot' = [edge \in WeakEdges |->
           IF edge \in recordedEdges /\ sweptToNull(edge) THEN Null ELSE weakSlot[edge]]
    /\ nulledEdges' = {edge \in recordedEdges : sweptToNull(edge)}
    /\ gcWeakRefs' = [z \in Zones |-> <<>>]
    /\ gcWeakKeys' = [z \in Zones |-> 0]
    /\ UNCHANGED <<collecting, lastIter>>
    /\ sweptAt' = [c \in Cells |-> IF c \in HeapWalk THEN gcNumber + 1 ELSE sweptAt[c]]
    /\ gcNumber' = gcNumber + 1
    /\ UNCHANGED <<markedAtoms, roots, markBits, storeBuffer, started, rootsTraced, stack,
                   capacity, mpc, obj, vp, drainResult, delayed, overflowed, pushCount,
                   lastMark, snapshot, overwritten, writes>>

\* AtomMarkingRuntime::markAtom: the atom is recorded in the bitmap of the
\* zone the context is in.
markAtom(z, thing) ==
    /\ thing \in AtomCells \ poisoned
    /\ thing \notin markedAtoms[z]
    /\ markedAtoms' = [markedAtoms EXCEPT ![z] = @ \cup {thing}]
    /\ UNCHANGED <<poisoned, gcNumber, sweptAt, hvars>>

\* AtomMarkingRuntime::adoptMarkedAtoms: target's bitmap is or-ed with source's.
adoptMarkedAtoms(target, source) ==
    /\ target # source
    /\ ~(markedAtoms[source] \subseteq markedAtoms[target])
    /\ markedAtoms' = [markedAtoms EXCEPT ![target] = @ \cup markedAtoms[source]]
    /\ UNCHANGED <<poisoned, gcNumber, sweptAt, hvars>>

(* ======================================================================= *)
(* Allocator: js::Allocate and the cell header's alloc kind                *)
(* ======================================================================= *)
MaxAlloc == 2
NumKinds == 2
MaxDisableDepth == 1

\* The cells the allocator can hand out, in bump order.
AllocCells == 1..MaxAlloc

\* gc::AllocKind values (FIRST = 0).
Kinds == 0..(NumKinds - 1)

\* The constant Cell::setAllocKind ors into the kind and getAllocKind expects
\* to find there.
KindEyeCatcher == 829952

\* The outcome of dereferencing a null pointer, as a call's result.
Crashed == -1

\* The allocation entry points: js::Allocate<T>(JSContext*, AllocKind),
\* js::Allocate<T>(ExclusiveContext*, AllocKind),
\* js::Allocate<JSObject>(cx, kind, nDynamicSlots, heap, clasp) and
\* js::Allocate<T>(ExclusiveContext*).
EntryPoints == {"Allocate", "AllocateExclusive", "AllocateObject", "AllocateTenured"}

\* enum InitialHeap.
InitialHeaps == {"DefaultHeap", "TenuredHeap"}

VARIABLES
    flags_,            \* per cell: Cell::flags_, 0 while the memory is fresh
    inHeap,            \* cells the heap has handed to an allocation call
    published,         \* cells an allocation call has returned to its caller
    acall,             \* the allocation call in progress
    alog,              \* the last allocation call that returned, and what it did
    enabled,           \* GCRuntime::enabled
    inUnsafeRegion,    \* JSContext::inUnsafeRegion of the running context
    generationalDisabled,  \* JSContext::generationalDisabled of the running context
    disableDepth       \* live JS::AutoDisableGenerationalGC instances

avars == <<flags_, inHeap, published, acall, alog, enabled, inUnsafeRegion,
           generationalDisabled, disableDepth>>

NoCall == [pc |-> "idle", ep |-> "none", kind |-> 0, obj |-> Null, checked |-> FALSE,
           unsafe |-> FALSE, disabled |-> FALSE, path |-> "none"]

NoLog == [ep |-> "none", result |-> Null, attempts |-> 0, maybeGCs |-> 0,
          checked |-> FALSE, unsafe |-> FALSE, disabled |-> FALSE, path |-> "none"]

\* Cell::setAllocKind: flags_ = (kind | 829952) << 2.  The kinds have no bit
\* in common with the constant, so the or is a sum.
setAllocKind_Skip(fl, c, kind) == fl

setAllocKind(fl, c, kind) == [fl EXCEPT ![c] = (kind + KindEyeCatcher) * 4]

\* The assertion of Cell::getAllocKind: ((flags_ >> 2) & 829952) == 829952.
hasAllocKind(c) == (flags_[c] \div 4) >= KindEyeCatcher

\* Cell::getAllocKind: (flags_ >> 2) & ~829952.
getAllocKind(c) == (flags_[c] \div 4) - KindEyeCatcher

\* GCRuntime::checkAllocatorState<allowGC>(cx, kind).
checkAllocatorState(kind) == TRUE

\* GCRuntime::checkIncrementalZoneState(cx, t): nothing is checked.
checkIncrementalZoneState(t) == TRUE

\* Nursery::allocateObject(cx, size, nDynamicSlots, clasp, allowGC): the next
\* free cell of the heap, or null when there is none or the heap refuses.
allocateObject(allowGC, ok) ==
    IF ok /\ AllocCells \ inHeap # {}
      THEN CHOOSE c \in AllocCells \ inHeap : \A d \in AllocCells \ inHeap : c <= d
      ELSE Null

\* GCRuntime::tryNewTenuredThing<T, allowGC>(cx, kind, thingSize): a cell from
\* the tenured heap, or null.
tryNewTenuredThing(ok) == allocateObject(FALSE, ok)

\* An allocation call returns result to its caller.
allocReturn(result, call) ==
    /\ alog' = [ep |-> call.ep, result |-> result, attempts |-> 1, maybeGCs |-> 0,
                checked |-> call.checked, unsafe |-> call.unsafe,
                disabled |-> call.disabled, path |-> call.path]
    /\ acall' = NoCall
    /\ published' = IF result \in AllocCells THEN published \cup {result} ELSE published

\* js::Allocate up to the return of the heap's allocation routine.  Only
\* js::Allocate<T>(ExclusiveContext*) asks checkAllocatorState and takes the
\* tenured path; the others call nursery.allocateObject whatever the heap hint.
\* js::Allocate<T>(ExclusiveContext*, AllocKind) calls setAllocKind through the
\* pointer it got without testing it: on null the call crashes or goes on.
AllocateBegin(ep, kind, heap, allowGC, ok, ub) ==
    /\ alog.result # Crashed
    /\ acall.pc = "idle"
    /\ LET checked == ep = "AllocateTenured" /\ checkAllocatorState(kind)
           canGC == allowGC /\ enabled = 0
           cell == IF ep = "AllocateTenured"
                     THEN tryNewTenuredThing(ok)
                     ELSE allocateObject(canGC, ok)
           call == [pc |-> "obj", ep |-> ep, kind |-> kind, obj |-> cell, checked |-> checked,
                    unsafe |-> inUnsafeRegion, disabled |-> disableDepth > 0,
                    path |-> IF ep = "AllocateTenured" THEN "tenured" ELSE "nursery"]
       IN IF cell # Null
            THEN /\ inHeap' = inHeap \cup {cell}
                 /\ flags_' = IF ep = "AllocateTenured"
                                THEN [flags_ EXCEPT ![cell] = (kind + KindEyeCatcher) * 4]
                                ELSE flags_
                 /\ acall' = call
                 /\ UNCHANGED <<published, alog>>
            ELSE /\ allocReturn(IF ep = "AllocateExclusive" /\ ub THEN Crashed ELSE Null, call)
                 /\ UNCHANGED <<inHeap, flags_>>
    /\ UNCHANGED <<enabled, inUnsafeRegion, generationalDisabled, disableDepth>>

\* The rest of js::Allocate: obj->setAllocKind(kind); return obj.
AllocateEnd ==
    /\ acall.pc = "obj"
    /\ flags_' = IF acall.ep = "AllocateTenured"
                   THEN flags_
                   ELSE setAllocKind(flags_, acall.obj, acall.kind)
    /\ allocReturn(acall.obj, acall)
    /\ UNCHANGED <<inHeap, enabled, inUnsafeRegion, generationalDisabled, disableDepth>>

\* The running context enters or leaves a region in which a collection is
\* unsafe.
setInUnsafeRegion(b) ==
    /\ alog.result # Crashed
    /\ acall.pc = "idle"
    /\ inUnsafeRegion # b
    /\ inUnsafeRegion' = b
    /\ UNCHANGED <<flags_, inHeap, published, acall, alog, enabled, generationalDisabled,
                   disableDepth>>

\* JS::AutoDisableGenerationalGC::AutoDisableGenerationalGC(cx): nothing is
\* done; the instance is live until its destructor.
AutoDisableGenerationalGC ==
    /\ alog.result # Crashed
    /\ acall.pc = "idle"
    /\ disableDepth < MaxDisableDepth
    /\ disableDepth' = disableDepth + 1
    /\ UNCHANGED <<flags_, inHeap, published, acall, alog, enabled, inUnsafeRegion,
                   generationalDisabled>>

\* JS::AutoDisableGenerationalGC::~AutoDisableGenerationalGC().
AutoDisableGenerationalGC_dtor ==
    /\ alog.result # Crashed
    /\ acall.pc = "idle"
    /\ disableDepth > 0
    /\ disableDepth' = disableDepth - 1
    /\ UNCHANGED <<flags_, inHeap, published, acall, alog, enabled, inUnsafeRegion,
                   generationalDisabled>>

\* AutoSuppressGC::AutoSuppressGC(cx): gc.disable().
AutoSuppressGC ==
    /\ alog.result # Crashed
    /\ acall.pc = "idle"
    /\ enabled > -MaxDisableDepth
    /\ enabled' = enabled - 1
    /\ UNCHANGED <<flags_, inHeap, published, acall, alog, inUnsafeRegion,
                   generationalDisabled, disableDepth>>

\* AutoSuppressGC::~AutoSuppressGC(): gc.enable().
AutoSuppressGC_dtor ==
    /\ alog.result # Crashed
    /\ acall.pc = "idle"
    /\ enabled < 0
    /\ enabled' = enabled + 1
    /\ UNCHANGED <<flags_, inHeap, published, acall, alog, inUnsafeRegion,
                   generationalDisabled, disableDepth>>

(* ======================================================================= *)
(* js::NewCompartment: zone and zone group of a new compartment            *)
(* ======================================================================= *)
MaxZones == 2
MaxGroups == 3
MaxCompartments == 3

ZoneIds == 1..MaxZones
GroupIds == 1..MaxGroups

\* JS::ZoneSpecifier.
ZoneSpecs == {"SystemZone", "ExistingZone", "NewZoneInNewZoneGroup",
              "NewZoneInSystemZoneGroup", "NewZoneInExistingZoneGroup"}

VARIABLES
    zoneGroup,         \* per zone: Zone::group(), 0 while the zone is not created
    gcGroups,          \* rt->gc.groups()
    groupZones,        \* per group: ZoneGroup::zones()
    exclusiveGroups,   \* the groups whose useExclusiveLocking is set
    compartments,      \* the compartments created, each with its zone
    systemZone,        \* rt->gc.systemZone (0 is nullptr)
    systemZoneGroup,   \* rt->gc.systemZoneGroup (0 is nullptr)
    omrZone,           \* OmrGcHelper::zone (0 is nullptr)
    clog               \* the last NewCompartment call: what was asked and what was chosen

cvars == <<zoneGroup, gcGroups, groupZones, exclusiveGroups, compartments, systemZone,
           systemZoneGroup, omrZone, clog>>

NoCompartmentCall ==
    [zoneSpec |-> "none", zonePointer |-> 0, zone |-> 0, group |-> 0,
     zoneHolder |-> FALSE, groupHolder |-> FALSE]

\* The zones and groups that exist.
createdZones == {z \in ZoneIds : zoneGroup[z] # 0}
createdGroups == gcGroups

\* cx->new_<Zone>(...) / cx->new_<ZoneGroup>(rt): the next unused identity.
newZone == CHOOSE z \in ZoneIds \ createdZones : \A y \in ZoneIds \ createdZones : z <= y
newGroup == CHOOSE g \in GroupIds \ createdGroups : \A h \in GroupIds \ createdGroups : g <= h

\* The switch on the zone specifier: the zone and the group the call starts
\* with (0 is nullptr).
selectedZone(zoneSpec, zonePointer) ==
    CASE zoneSpec = "SystemZone" -> systemZone
      [] zoneSpec = "ExistingZone" -> zonePointer
      [] OTHER -> 0

selectedGroup(zoneSpec, zonePointer) ==
    CASE zoneSpec = "SystemZone" -> systemZoneGroup
      [] zoneSpec = "ExistingZone" -> zoneGroup[zonePointer]
      [] zoneSpec = "NewZoneInSystemZoneGroup" -> systemZoneGroup
      [] zoneSpec = "NewZoneInExistingZoneGroup" -> zonePointer
      [] OTHER -> 0

\* js::NewCompartment(cx, principals, options), a call that does not run out
\* of memory.  The group is entered for the length of the call and left at its
\* end.  A call without a zone takes OmrGcHelper::zone and creates a zone only
\* while that is still null.
NewCompartment(zoneSpec, zonePointer) ==
    /\ Len(compartments) < MaxCompartments
    /\ zoneSpec = "ExistingZone" => zonePointer \in createdZones
    /\ zoneSpec = "NewZoneInExistingZoneGroup" => zonePointer \in createdGroups
    /\ zoneSpec \notin {"ExistingZone", "NewZoneInExistingZoneGroup"} => zonePointer = 0
    /\ LET zone0 == selectedZone(zoneSpec, zonePointer)
           group0 == selectedGroup(zoneSpec, zonePointer)
           groupHolder == group0 = 0
           group == IF groupHolder THEN newGroup ELSE group0
           zoneHolder == zone0 = 0 /\ omrZone = 0
           zone == IF zone0 # 0 THEN zone0 ELSE IF omrZone # 0 THEN omrZone ELSE newZone
       IN /\ groupHolder => GroupIds \ createdGroups # {}
          /\ zoneHolder => ZoneIds \ createdZones # {}
          /\ omrZone' = IF zoneHolder THEN zone ELSE omrZone
          /\ zoneGroup' = IF zoneHolder THEN [zoneGroup EXCEPT ![zone] = group] ELSE zoneGroup
          /\ compartments' = Append(compartments, [zone |-> zone])
          /\ groupZones' = IF zoneHolder
                             THEN [groupZones EXCEPT ![group] = @ \cup {zone}]
                             ELSE groupZones
          /\ systemZone' = IF zoneHolder /\ zoneSpec = "SystemZone" THEN zone ELSE systemZone
          /\ gcGroups' = IF groupHolder THEN gcGroups \cup {group} ELSE gcGroups
          /\ systemZoneGroup' =
                IF groupHolder /\ zoneSpec \in {"SystemZone", "NewZoneInSystemZoneGroup"}
                  THEN group ELSE systemZoneGroup
          /\ exclusiveGroups' =
                IF groupHolder /\ zoneSpec \in {"SystemZone", "NewZoneInSystemZoneGroup"}
                  THEN exclusiveGroups \cup {group} ELSE exclusiveGroups
          /\ clog' = [zoneSpec |-> zoneSpec, zonePointer |-> zonePointer, zone |-> zone,
                      group |-> group, zoneHolder |-> zoneHolder,
                      groupHolder |-> groupHolder]

(* ======================================================================= *)
(* Locks: the GC lock, the exclusive-access lock, the helper-thread lock    *)
(* ======================================================================= *)
Locks == {"HelperThreadState", "GCLock", "ExclusiveAccess"}

\* The places that take the GC lock, and the two that take the
\* exclusive-access lock.
GCLockSites == {"NewCompartment", "ZoneGroup_init", "Zone", "GCRuntime_init"}
ExclusiveAccessSites == {"scanRoots", "masterCleanupAfterGC"}

VARIABLES
    lheld,   \* per thread: the locks it holds, in the order it took them
    lpc      \* per thread: the function it is in and how far it is

lvars == <<lheld, lpc>>

NotLocking == [site |-> "none", step |-> 0]

\* The position of a lock in the order helper-thread-state < GC <
\* exclusive-access.
lockRank(l) ==
    CASE l = "HelperThreadState" -> 1
      [] l = "GCLock" -> 2
      [] l = "ExclusiveAccess" -> 3

\* A mutex is free while no thread holds it.
isFree(l) == \A t \in Contexts : \A i \in 1..Len(lheld[t]) : lheld[t][i] # l

\* Mutex::lock and Mutex::unlock by thread t.
lockMutex(t, l) == isFree(l) /\ lheld' = [lheld EXCEPT ![t] = Append(@, l)]
unlockMutex(t) == lheld' = [lheld EXCEPT ![t] = SubSeq(@, 1, Len(@) - 1)]

\* AutoLockGC lock(rt) at one of its sites, and the end of its scope.
AutoLockGC(t, site) ==
    /\ lpc[t] = NotLocking
    /\ lockMutex(t, "GCLock")
    /\ lpc' = [lpc EXCEPT ![t] = [site |-> site, step |-> 0]]

AutoLockGC_dtor(t) ==
    /\ lpc[t].site \in GCLockSites
    /\ unlockMutex(t)
    /\ lpc' = [lpc EXCEPT ![t] = NotLocking]

\* AutoLockForExclusiveAccess lock(rt) in masterCleanupAfterGC, and the one
\* that AutoTraceSession holds in scanRoots; then the end of the scope.
AutoLockForExclusiveAccess(t, site) ==
    /\ lpc[t] = NotLocking
    /\ lockMutex(t, "ExclusiveAccess")
    /\ lpc' = [lpc EXCEPT ![t] = [site |-> site, step |-> 0]]

AutoLockForExclusiveAccess_dtor(t) ==
    /\ lpc[t].site \in ExclusiveAccessSites
    /\ lpc[t].step = 2
    /\ unlockMutex(t)
    /\ lpc' = [lpc EXCEPT ![t] = NotLocking]

\* The access to the helper-thread state inside the scope: scanRoots reaches
\* HelperThreadState().trace(trc) through traceRuntimeCommon, and
\* masterCleanupAfterGC calls CancelOffThreadIonCompile.  The helper-thread
\* state is accessed under its own lock.
AutoLockHelperThreadState(t) ==
    /\ lpc[t].site \in ExclusiveAccessSites
    /\ lpc[t].step = 0
    /\ lockMutex(t, "HelperThreadState")
    /\ lpc' = [lpc EXCEPT ![t].step = 1]

AutoLockHelperThreadState_dtor(t) ==
    /\ lpc[t].site \in ExclusiveAccessSites
    /\ lpc[t].step = 1
    /\ unlockMutex(t)
    /\ lpc' = [lpc EXCEPT ![t].step = 2]

(* ======================================================================= *)
(* Value ranges on the mark stack across slices: saveValueRanges and       *)
(* restoreValueArray over an object whose storage the mutator changes      *)
(* ======================================================================= *)
MaxFixed == 1
MaxSpan == 2
MaxInitLen == 1
MaxRangeStack == 3

\* The three storages of a native object: its fixed slots, its dynamic
\* slots (slots_) and its dense elements.  A HeapSlot* is a storage and an
\* offset into it.
Storages == {"fixed", "dynamic", "elements"}

VARIABLES
    nfixed,       \* NativeObject::numFixedSlots()
    slotSpan,     \* NativeObject::slotSpan()
    initLen,      \* NativeObject::getDenseInitializedLength()
    isNative,     \* JSObject::isNative()
    isArray,      \* JSObject::is<ArrayObject>()
    rstack,       \* the mark stack, bottom first
    rpc,          \* "mutator" between slices, else the position in the slice
    rcur,         \* processMarkStackTop: the range vp..end being scanned
    budgetOver,   \* the slice's budget reports isOverBudget()
    rlast         \* the last restoreValueArray call: the entry, the shape, the result

vvars == <<nfixed, slotSpan, initLen, isNative, isArray, rstack, rpc, rcur, budgetOver,
           rlast>>

RangeObject == [tag |-> "ObjectTag", kind |-> "none", start |-> 0, end |-> 0]
ValueArray(storage, s, e) ==
    [tag |-> "ValueArrayTag", kind |-> storage, start |-> s, end |-> e]
SavedValueArray(index, kind) ==
    [tag |-> "SavedValueArrayTag", kind |-> kind, start |-> index, end |-> 0]

NoRange == [kind |-> "none", start |-> 0, end |-> 0]
NoRestore == [called |-> FALSE, ok |-> FALSE, shrunk |-> FALSE, pushed |-> RangeObject]

\* The number of values a storage of the object holds now.
storageLength(storage) ==
    CASE ~isNative -> 0
      [] storage = "fixed" -> Min(nfixed, slotSpan)
      [] storage = "dynamic" -> IF slotSpan > nfixed THEN slotSpan - nfixed ELSE 0
      [] storage = "elements" -> initLen
      [] OTHER -> 0

\* The body of saveValueRanges for one ValueArrayTag entry, ending in
\* MarkStackIter::saveValueArray(obj, index, kind).
saveValueArray(array) ==
    IF array.kind = "elements" /\ array.end = initLen
      THEN SavedValueArray(array.start, "Element")
      ELSE IF array.start = array.end
        THEN SavedValueArray(slotSpan, "Slot")
        ELSE IF array.kind = "fixed" /\ array.start < nfixed
          THEN SavedValueArray(array.start, "Slot")
          ELSE SavedValueArray(array.start + nfixed, "Slot")

\* saveValueRanges converting the top entry only.
saveValueRanges_TopOnly(stk) ==
    [k \in DOMAIN stk |->
        IF stk[k].tag = "ValueArrayTag" /\ k = Len(stk)
          THEN saveValueArray(stk[k])
          ELSE stk[k]]

\* GCMarker::saveValueRanges over the whole stack (MarkStackIter walks it
\* from the top down to position 0).
saveAllValueRanges(stk) ==
    [k \in DOMAIN stk |->
        IF stk[k].tag = "ValueArrayTag" THEN saveValueArray(stk[k]) ELSE stk[k]]

\* restoreValueArray that trusts the saved index.
restoreValueArray_NoShrinkCheck(array) ==
    IF ~isNative
      THEN [ok |-> FALSE, range |-> NoRange]
      ELSE IF array.kind = "Element"
        THEN [ok |-> TRUE, range |-> [kind |-> "elements", start |-> array.start,
                                      end |-> initLen]]
        ELSE IF array.start < nfixed
          THEN [ok |-> TRUE, range |-> [kind |-> "fixed", start |-> array.start,
                                        end |-> Min(nfixed, slotSpan)]]
          ELSE [ok |-> TRUE, range |-> [kind |-> "dynamic", start |-> array.start - nfixed,
                                        end |-> slotSpan - nfixed]]

\* GCMarker::restoreValueArray(array, vpp, endp): the result and the range.
restoreValueArray(array) ==
    IF ~isNative
      THEN [ok |-> FALSE, range |-> NoRange]
      ELSE IF array.kind = "Element"
        THEN IF ~isArray
               THEN [ok |-> FALSE, range |-> NoRange]
               ELSE IF array.start < initLen
                 THEN [ok |-> TRUE, range |-> [kind |-> "elements", start |-> array.start,
                                               end |-> initLen]]
                 ELSE [ok |-> TRUE, range |-> [kind |-> "elements", start |-> 0, end |-> 0]]
        ELSE IF array.start < slotSpan
          THEN IF array.start < nfixed
                 THEN [ok |-> TRUE, range |-> [kind |-> "fixed", start |-> array.start,
                                               end |-> Min(nfixed, slotSpan)]]
                 ELSE [ok |-> TRUE, range |-> [kind |-> "dynamic",
                                               start |-> array.start - nfixed,
                                               end |-> slotSpan - nfixed]]
          ELSE [ok |-> TRUE, range |-> [kind |-> "fixed", start |-> 0, end |-> 0]]

\* GCMarker::pushValueArray and GCMarker::repush on a stack with room.
pushValueArray(stk, r) == Append(stk, ValueArray(r.kind, r.start, r.end))
repush(stk) == Append(stk, RangeObject)

\* The return of processMarkStackTop into drainMarkStack's loop: over budget
\* saves the value ranges and ends the slice with false.
returnToDrainLoop(stk) ==
    IF budgetOver
      THEN /\ rstack' = saveAllValueRanges(stk)
           /\ rpc' = "mutator"
      ELSE /\ rstack' = stk
           /\ rpc' = "drain"

\* drainMarkStack(budget), entry: a new budget, which may be over at once.
rangeDrainMarkStack(over) ==
    /\ rpc = "mutator"
    /\ budgetOver' = over
    /\ rpc' = IF over THEN "mutator" ELSE "drain"
    /\ UNCHANGED <<nfixed, slotSpan, initLen, isNative, isArray, rstack, rcur, rlast>>

\* The budget of the running slice runs out.
budgetExhausted ==
    /\ rpc # "mutator"
    /\ ~budgetOver
    /\ budgetOver' = TRUE
    /\ UNCHANGED <<nfixed, slotSpan, initLen, isNative, isArray, rstack, rpc, rcur, rlast>>

\* drainMarkStack's loop calling processMarkStackTop: the switch on the tag
\* of the top entry; an empty stack ends the slice with true.
processMarkStackTop ==
    /\ rpc = "drain"
    /\ IF rstack = <<>>
         THEN /\ rpc' = "mutator"
              /\ UNCHANGED <<rstack, rcur, rlast>>
         ELSE LET top == rstack[Len(rstack)]
                  rest == SubSeq(rstack, 1, Len(rstack) - 1)
              IN CASE top.tag = "ValueArrayTag" ->
                        /\ rstack' = rest
                        /\ rcur' = [kind |-> top.kind, start |-> top.start, end |-> top.end]
                        /\ rpc' = "scan_value_array"
                        /\ UNCHANGED rlast
                   [] top.tag = "ObjectTag" ->
                        /\ rstack' = rest
                        /\ rpc' = "scan_obj"
                        /\ UNCHANGED <<rcur, rlast>>
                   [] top.tag = "SavedValueArrayTag" ->
                        LET r == restoreValueArray(top)
                            stk == IF r.ok THEN pushValueArray(rest, r.range)
                                   ELSE repush(rest)
                        IN /\ returnToDrainLoop(stk)
                           /\ rlast' = [called |-> TRUE, ok |-> r.ok,
                                        shrunk |-> top.start >= (IF top.kind = "Element"
                                                                   THEN initLen
                                                                   ELSE slotSpan),
                                        pushed |-> stk[Len(stk)]]
                           /\ UNCHANGED rcur
    /\ UNCHANGED <<nfixed, slotSpan, initLen, isNative, isArray, budgetOver>>

\* processMarkStackTop, label scan_value_array: one turn of while (vp != end);
\* child tells whether the value is an object that mark() reports newly marked.
rangeScanValueArray(child) ==
    /\ rpc = "scan_value_array"
    /\ IF rcur.start = rcur.end
         THEN /\ returnToDrainLoop(rstack)
              /\ rcur' = NoRange
         ELSE IF budgetOver
           THEN /\ returnToDrainLoop(pushValueArray(rstack, rcur))
                /\ rcur' = NoRange
           ELSE IF child /\ Len(rstack) + 3 <= MaxRangeStack
             THEN /\ rstack' = pushValueArray(rstack, [rcur EXCEPT !.start = @ + 1])
                  /\ rcur' = NoRange
                  /\ rpc' = "scan_obj"
             ELSE /\ rcur' = [rcur EXCEPT !.start = @ + 1]
                  /\ UNCHANGED <<rstack, rpc>>
    /\ UNCHANGED <<nfixed, slotSpan, initLen, isNative, isArray, budgetOver, rlast>>

\* processMarkStackTop, label scan_obj: the dense elements and the fixed slots
\* are pushed as value ranges, the last range is scanned at once.
rangeScanObj ==
    /\ rpc = "scan_obj"
    /\ IF budgetOver
         THEN /\ returnToDrainLoop(repush(rstack))
              /\ UNCHANGED rcur
         ELSE IF ~isNative
           THEN /\ returnToDrainLoop(rstack)
                /\ UNCHANGED rcur
           ELSE LET elems == [kind |-> "elements", start |-> 0, end |-> initLen]
                    hasElems == initLen > 0
                    stk1 == IF hasElems /\ slotSpan # 0
                              THEN pushValueArray(rstack, elems) ELSE rstack
                IN IF hasElems /\ slotSpan = 0
                     THEN /\ rcur' = elems
                          /\ rstack' = rstack
                          /\ rpc' = "scan_value_array"
                     ELSE IF slotSpan > nfixed
                       THEN /\ rstack' = pushValueArray(stk1, [kind |-> "fixed", start |-> 0,
                                                               end |-> nfixed])
                            /\ rcur' = [kind |-> "dynamic", start |-> 0,
                                        end |-> slotSpan - nfixed]
                            /\ rpc' = "scan_value_array"
                       ELSE /\ rstack' = stk1
                            /\ rcur' = [kind |-> "fixed", start |-> 0, end |-> slotSpan]
                            /\ rpc' = "scan_value_array"
    /\ UNCHANGED <<nfixed, slotSpan, initLen, isNative, isArray, budgetOver, rlast>>

\* The mutator between slices: the object's slots or elements are
\* reallocated to another length, or the object stops being native.
reallocateSlots(n) ==
    /\ rpc = "mutator"
    /\ isNative
    /\ n # slotSpan
    /\ slotSpan' = n
    /\ UNCHANGED <<nfixed, initLen, isNative, isArray, rstack, rpc, rcur, budgetOver, rlast>>

reallocateElements(n) ==
    /\ rpc = "mutator"
    /\ isNative
    /\ n # initLen
    /\ initLen' = n
    /\ UNCHANGED <<nfixed, slotSpan, isNative, isArray, rstack, rpc, rcur, budgetOver, rlast>>

swapToNonNative ==
    /\ rpc = "mutator"
    /\ isNative
    /\ isNative' = FALSE
    /\ UNCHANGED <<nfixed, slotSpan, initLen, isArray, rstack, rpc, rcur, budgetOver, rlast>>

\* The mutator has a new object marked and pushed.
rangeMarkAndPush ==
    /\ rpc = "mutator"
    /\ Len(rstack) < MaxRangeStack - 2
    /\ rstack' = repush(rstack)
    /\ UNCHANGED <<nfixed, slotSpan, initLen, isNative, isArray, rpc, rcur, budgetOver, rlast>>

(* ======================================================================= *)
(* js::NewCompartment in an existing zone group: enter and leave            *)
(* ======================================================================= *)
MaxNewCompartmentCalls == 2

\* The returns of js::NewCompartment after group->enter(cx): the five
\* "return nullptr" and the final "return compartment.forget()".
NewCompartmentReturns ==
    {"zone", "zone_init", "compartment", "compartments_append", "zones_append", "forget"}

VARIABLES
    ncLog    \* the calls of NewCompartment so far and the return the last one took

evars == <<ncLog>>

\* js::NewCompartment(cx, principals, options) whose zone specifier selects the
\* existing zone group: group->enter(cx) without waiting, the creation of the
\* zone and the compartment up to the return ret, and group->leave() on the
\* last line only.
NewCompartmentInGroup(cx, ret) ==
    /\ ~crashed
    /\ cxpc[cx] = "out"
    /\ ownerContext_ \in {NoContext, cx}
    /\ enterCount < MaxEnterCount
    /\ ncLog.calls < MaxNewCompartmentCalls
    /\ LET entered == enterCount + 1
           left == entered - 1
       IN IF ret = "forget"
            THEN /\ enterCount' = left
                 /\ ownerContext_' = IF left = 0 THEN NoContext ELSE cx
                 /\ UNCHANGED inside
            ELSE /\ enterCount' = entered
                 /\ ownerContext_' = cx
                 /\ inside' = [inside EXCEPT ![cx] = @ + 1]
    /\ ncLog' = [calls |-> ncLog.calls + 1, ret |-> ret]
    /\ UNCHANGED <<useExclusiveLocking, cxpc, crashed>>

(* ======================================================================= *)
(* MarkStack capacity: setMaxCapacity, setGCMode, reset, ensureSpace       *)
(* ======================================================================= *)
MaxStackCapacity == 6

INCREMENTAL_MARK_STACK_BASE_CAPACITY == 32768

\* JSGCMode
GCModes == {"JSGC_MODE_GLOBAL", "JSGC_MODE_ZONE", "JSGC_MODE_INCREMENTAL"}

VARIABLES
    stack_,          \* the entries between MarkStack::stack_ and tos_, by tag
    end_,            \* MarkStack::capacity(), end_ - stack_
    baseCapacity_,   \* MarkStack::baseCapacity_
    maxCapacity_,    \* MarkStack::maxCapacity_
    lastOp,          \* the last call on the stack and its result
    reallocFailed    \* some reset has kept the stack because js_pod_realloc failed

mvars == <<stack_, end_, baseCapacity_, maxCapacity_, lastOp, reallocFailed>>

\* MarkStack::setBaseCapacity: the base capacity for a mode under a maximum.
setBaseCapacity(mode, maxCapacity) ==
    LET base == IF mode = "JSGC_MODE_INCREMENTAL"
                  THEN INCREMENTAL_MARK_STACK_BASE_CAPACITY
                  ELSE NON_INCREMENTAL_MARK_STACK_BASE_CAPACITY
    IN IF base > maxCapacity THEN maxCapacity ELSE base

\* MarkStack::reset: <<capacity, baseCapacity_, realloc failed>> afterwards.
MarkStack_resetTo(cap, base, reallocOk) ==
    IF cap = base THEN <<base, base, FALSE>>
    ELSE IF reallocOk THEN <<base, base, FALSE>>
    ELSE <<cap, cap, TRUE>>

\* An enlarge that doubles without clamping to the maximum.
MarkStack_enlarge_NoClamp(cap, count, reallocOk) ==
    LET newCapacity == cap * 2
    IN IF newCapacity < cap + count THEN 0
       ELSE IF ~reallocOk THEN 0
       ELSE newCapacity

\* MarkStack::enlarge: the capacity after growing, or 0 when it cannot grow.
MarkStack_enlarge(cap, count, reallocOk) ==
    LET newCapacity == Min(maxCapacity_, cap * 2)
    IN IF newCapacity < cap + count THEN 0
       ELSE IF ~reallocOk THEN 0
       ELSE newCapacity

\* MarkStack::ensureSpace: the capacity that holds count more words, or 0.
MarkStack_ensureSpace(count, reallocOk) ==
    IF position(stack_) + count <= end_ THEN end_ ELSE MarkStack_enlarge(end_, count, reallocOk)

\* MarkStack::pushTaggedPtr and MarkStack::push(const ValueArray&): an entry of
\* the tag is pushed if ensureSpace finds or makes room for its words.
MarkStack_push(tag, reallocOk) ==
    LET entry == [tag |-> tag]
        count == EntryWords(entry)
        cap == MarkStack_ensureSpace(count, reallocOk)
    IN /\ IF cap = 0
            THEN UNCHANGED <<stack_, end_>>
            ELSE stack_' = Append(stack_, entry) /\ end_' = cap
       /\ lastOp' = [op |-> "push", count |-> count, ok |-> cap # 0]
       /\ UNCHANGED <<baseCapacity_, maxCapacity_, reallocFailed>>

\* MarkStack::popPtr / popValueArray: the top entry is taken off.
MarkStack_pop ==
    /\ stack_ # <<>>
    /\ stack_' = SubSeq(stack_, 1, Len(stack_) - 1)
    /\ lastOp' = [op |-> "pop", count |-> EntryWords(stack_[Len(stack_)]), ok |-> TRUE]
    /\ UNCHANGED <<end_, baseCapacity_, maxCapacity_, reallocFailed>>

\* MarkStack::reset
MarkStack_reset(reallocOk) ==
    LET r == MarkStack_resetTo(end_, baseCapacity_, reallocOk)
    IN /\ stack_' = <<>>
       /\ end_' = r[1]
       /\ baseCapacity_' = r[2]
       /\ reallocFailed' = (reallocFailed \/ r[3])
       /\ lastOp' = [op |-> "reset", count |-> 0, ok |-> ~r[3]]
       /\ UNCHANGED maxCapacity_

\* MarkStack::setMaxCapacity (asserts a non-zero maximum and an empty stack)
setMaxCapacity(maxCapacity, reallocOk) ==
    /\ maxCapacity # 0
    /\ isEmpty(stack_)
    /\ maxCapacity # maxCapacity_
    /\ LET base == IF baseCapacity_ > maxCapacity THEN maxCapacity ELSE baseCapacity_
           r == MarkStack_resetTo(end_, base, reallocOk)
       IN /\ maxCapacity_' = maxCapacity
          /\ stack_' = <<>>
          /\ end_' = r[1]
          /\ baseCapacity_' = r[2]
          /\ reallocFailed' = (reallocFailed \/ r[3])
          /\ lastOp' = [op |-> "setMaxCapacity", count |-> 0, ok |-> ~r[3]]

\* MarkStack::setGCMode
setGCMode(mode) ==
    /\ baseCapacity_' = setBaseCapacity(mode, maxCapacity_)
    /\ lastOp' = [op |-> "setGCMode", count |-> 0, ok |-> TRUE]
    /\ UNCHANGED <<stack_, end_, maxCapacity_, reallocFailed>>

(* ---------------------------- minor collection ------------------------- *)
VARIABLES
    minorGCAt     \* value of writes when the last minor collection returned, or -1

nvars == <<minorGCAt>>

\* GCRuntime::evictNursery: minorGC(reason, PHASE_EVICT_NURSERY); the heap is
\* left exactly as it was.
evictNursery(cx) ==
    /\ minorGC(cx)
    /\ minorGCAt' = writes
    /\ UNCHANGED <<hvars, rootvars, svars, avars, cvars, lvars, vvars, evars, fvars, kvars, wvars, mvars>>

\* The variables outside the zone group, the driver and the marker's heap.
xvars == <<nvars, rootvars, svars, avars, cvars, lvars, vvars, evars, fvars, kvars, wvars, mvars>>

\* The variables of the zone group and of the driver, which the marker and
\* the mutator leave alone.
rtvars == <<ownerContext_, enterCount, useExclusiveLocking, cxpc, inside, crashed,
            incrementalState, lastCall>>

MarkerStep ==
    \/ drainLoop /\ UNCHANGED <<rtvars, xvars>>
    \/ scan_obj /\ UNCHANGED <<rtvars, xvars>>
    \/ scan_value_array /\ UNCHANGED <<rtvars, xvars>>

HNext ==
    \/ start /\ UNCHANGED <<rtvars, xvars>>
    \/ stop /\ UNCHANGED <<rtvars, nvars, rootvars, svars, avars, cvars, lvars, vvars, evars, fvars, wvars, mvars>>
    \/ reset /\ UNCHANGED <<rtvars, xvars>>
    \/ \E r \in 1..NumRoots : TraceRoot(r) /\ UNCHANGED <<rtvars, xvars>>
    \/ drainMarkStack /\ UNCHANGED <<rtvars, xvars>>
    \/ MarkerStep
    \/ \E c \in Cells, i \in SlotIdx, next \in Cells \cup {Null} :
          WriteSlot(c, i, next) /\ UNCHANGED <<rtvars, xvars>>
    \/ \E c \in Cells : markObject(c) /\ UNCHANGED <<rtvars, xvars>>

RTNext ==
    \/ \E cx \in Contexts : enter(cx) /\ UNCHANGED <<dvars, hvars, xvars>>
    \/ \E cx \in Contexts : enterResume(cx) /\ UNCHANGED <<dvars, hvars, xvars>>
    \/ \E cx \in Contexts : leave(cx) /\ UNCHANGED <<dvars, hvars, xvars>>
    \/ setUseExclusiveLocking /\ UNCHANGED <<dvars, hvars, xvars>>
    \/ \E cx \in Contexts : GCForReason(cx) /\ UNCHANGED <<hvars, xvars>>
    \/ \E cx \in Contexts : StartIncrementalGC(cx) /\ UNCHANGED <<hvars, xvars>>
    \/ \E cx \in Contexts : IncrementalGCSlice(cx) /\ UNCHANGED <<hvars, xvars>>
    \/ \E cx \in Contexts : FinishIncrementalGC(cx) /\ UNCHANGED <<hvars, xvars>>
    \/ \E cx \in Contexts : AbortIncrementalGC(cx) /\ UNCHANGED <<hvars, xvars>>
    \/ \E cx \in Contexts : minorGC(cx) /\ UNCHANGED <<hvars, xvars>>

vars == <<zgvars, hvars, dvars, xvars>>

\* After construction (ZoneGroup::ZoneGroup with the creating context as owner,
\* GCRuntime::GCRuntime, GCMarker::GCMarker and MarkStack::init), for the heap
\* specification: the creating context stays inside its group, the roots hold
\* any cells and every slot is still null.
HeapInit ==
    /\ ownerContext_ = 1
    /\ enterCount = 1
    /\ useExclusiveLocking = FALSE
    /\ cxpc = [cx \in Contexts |-> "out"]
    /\ inside = [cx \in Contexts |-> IF cx = 1 THEN 1 ELSE 0]
    /\ crashed = FALSE
    /\ incrementalState = "NotActive"
    /\ lastCall = "none"
    /\ slots = [c \in Cells |-> [i \in SlotIdx |-> Null]]
    /\ roots \in [1..NumRoots -> Cells]
    /\ markBits = {}
    /\ storeBuffer = {}
    /\ started = FALSE
    /\ rootsTraced = {}
    /\ stack = <<>>
    /\ capacity = baseCapacity
    /\ mpc = "idle"
    /\ obj = Null
    /\ vp = 1
    /\ drainResult = "none"
    /\ delayed = {}
    /\ overflowed = {}
    /\ pushCount = [c \in Cells |-> 0]
    /\ lastMark = NoMark
    /\ snapshot = {}
    /\ overwritten = {}
    /\ writes = 0
    /\ minorGCAt = -1
    /\ stackRoots = [k \in KindSet |-> <<>>]
    /\ rootsHash = {}
    /\ heapRoots = [k \in KindSet |-> <<>>]
    /\ blackRootTracers = <<>>
    /\ grayRootTracer = NoTracer
    /\ regOrder = <<>>
    /\ removed = {}
    /\ blackRegistered = {}
    /\ grayRegistered = NoTracer
    /\ traced = "no"
    /\ visited = <<>>
    /\ tracersCalled = <<>>
    /\ poisoned = {}
    /\ gcNumber = 0
    /\ sweptAt = [c \in Cells |-> 0]
    /\ markedAtoms = [z \in Zones |-> {}]
    /\ flags_ = [c \in AllocCells |-> 0]
    /\ inHeap = {}
    /\ published = {}
    /\ acall = NoCall
    /\ alog = NoLog
    /\ enabled = 0
    /\ inUnsafeRegion = FALSE
    /\ generationalDisabled = FALSE
    /\ disableDepth = 0
    /\ zoneGroup = [z \in ZoneIds |-> 0]
    /\ gcGroups = {}
    /\ groupZones = [g \in GroupIds |-> {}]
    /\ exclusiveGroups = {}
    /\ compartments = <<>>
    /\ systemZone = 0
    /\ systemZoneGroup = 0
    /\ omrZone = 0
    /\ clog = NoCompartmentCall
    /\ lheld = [t \in Contexts |-> <<>>]
    /\ lpc = [t \in Contexts |-> NotLocking]
    /\ nfixed = 1
    /\ slotSpan = MaxSpan
    /\ initLen = MaxInitLen
    /\ isNative = TRUE
    /\ isArray = TRUE
    /\ rstack = <<RangeObject>>
    /\ rpc = "mutator"
    /\ rcur = NoRange
    /\ budgetOver = FALSE
    /\ rlast = NoRestore
    /\ ncLog = [calls |-> 0, ret |-> "none"]
    /\ allocKind = [c \in Cells |-> OBJECT0]
    /\ finalizeCount = [c \in Cells |-> 0]
    /\ sweepLog = <<>>
    /\ collecting = [z \in Zones |-> FALSE]
    /\ gcWeakKeys = [z \in Zones |-> 0]
    /\ lastIter = [visited |-> <<>>, collecting |-> {}]
    /\ weakSlot = [edge \in WeakEdges |-> Null]
    /\ gcWeakRefs = [z \in Zones |-> <<>>]
    /\ nulledEdges = {}
    /\ stack_ = <<>>
    /\ end_ = 1
    /\ baseCapacity_ = 1
    /\ maxCapacity_ = 1
    /\ lastOp = [op |-> "init", count |-> 0, ok |-> TRUE]
    /\ reallocFailed = FALSE

\* After construction, for the zone group and driver specification: the heap
\* is left alone and exclusive locking may or may not have been requested.
RuntimeInit ==
    /\ ownerContext_ = 1
    /\ enterCount = 1
    /\ useExclusiveLocking \in BOOLEAN
    /\ cxpc = [cx \in Contexts |-> "out"]
    /\ inside = [cx \in Contexts |-> IF cx = 1 THEN 1 ELSE 0]
    /\ crashed = FALSE
    /\ incrementalState = "NotActive"
    /\ lastCall = "none"
    /\ slots = [c \in Cells |-> [i \in SlotIdx |-> Null]]
    /\ roots = [r \in 1..NumRoots |-> 1]
    /\ markBits = {}
    /\ storeBuffer = {}
    /\ started = FALSE
    /\ rootsTraced = {}
    /\ stack = <<>>
    /\ capacity = baseCapacity
    /\ mpc = "idle"
    /\ obj = Null
    /\ vp = 1
    /\ drainResult = "none"
    /\ delayed = {}
    /\ overflowed = {}
    /\ pushCount = [c \in Cells |-> 0]
    /\ lastMark = NoMark
    /\ snapshot = {}
    /\ overwritten = {}
    /\ writes = 0
    /\ minorGCAt = -1
    /\ stackRoots = [k \in KindSet |-> <<>>]
    /\ rootsHash = {}
    /\ heapRoots = [k \in KindSet |-> <<>>]
    /\ blackRootTracers = <<>>
    /\ grayRootTracer = NoTracer
    /\ regOrder = <<>>
    /\ removed = {}
    /\ blackRegistered = {}
    /\ grayRegistered = NoTracer
    /\ traced = "no"
    /\ visited = <<>>
    /\ tracersCalled = <<>>
    /\ poisoned = {}
    /\ gcNumber = 0
    /\ sweptAt = [c \in Cells |-> 0]
    /\ markedAtoms = [z \in Zones |-> {}]
    /\ flags_ = [c \in AllocCells |-> 0]
    /\ inHeap = {}
    /\ published = {}
    /\ acall = NoCall
    /\ alog = NoLog
    /\ enabled = 0
    /\ inUnsafeRegion = FALSE
    /\ generationalDisabled = FALSE
    /\ disableDepth = 0
    /\ zoneGroup = [z \in ZoneIds |-> 0]
    /\ gcGroups = {}
    /\ groupZones = [g \in GroupIds |-> {}]
    /\ exclusiveGroups = {}
    /\ compartments = <<>>
    /\ systemZone = 0
    /\ systemZoneGroup = 0
    /\ omrZone = 0
    /\ clog = NoCompartmentCall
    /\ lheld = [t \in Contexts |-> <<>>]
    /\ lpc = [t \in Contexts |-> NotLocking]
    /\ nfixed = 1
    /\ slotSpan = MaxSpan
    /\ initLen = MaxInitLen
    /\ isNative = TRUE
    /\ isArray = TRUE
    /\ rstack = <<RangeObject>>
    /\ rpc = "mutator"
    /\ rcur = NoRange
    /\ budgetOver = FALSE
    /\ rlast = NoRestore
    /\ ncLog = [calls |-> 0, ret |-> "none"]
    /\ allocKind = [c \in Cells |-> OBJECT0]
    /\ finalizeCount = [c \in Cells |-> 0]
    /\ sweepLog = <<>>
    /\ collecting = [z \in Zones |-> FALSE]
    /\ gcWeakKeys = [z \in Zones |-> 0]
    /\ lastIter = [visited |-> <<>>, collecting |-> {}]
    /\ weakSlot = [edge \in WeakEdges |-> Null]
    /\ gcWeakRefs = [z \in Zones |-> <<>>]
    /\ nulledEdges = {}
    /\ stack_ = <<>>
    /\ end_ = 1
    /\ baseCapacity_ = 1
    /\ maxCapacity_ = 1
    /\ lastOp = [op |-> "init", count |-> 0, ok |-> TRUE]
    /\ reallocFailed = FALSE

\* The marker, the mutator and the barriers on one heap.
SpecHeap == HeapInit /\ [][HNext]_vars

\* Cooperating contexts entering and leaving the zone group and calling the
\* collector driver.
SpecZG == RuntimeInit /\ [][RTNext]_vars

\* The mutator's slot writes interleaved with minor collections.
NurseryNext ==
    \/ \E c \in Cells, i \in SlotIdx, next \in Cells \cup {Null} :
          WriteSlot(c, i, next) /\ UNCHANGED <<rtvars, xvars>>
    \/ \E cx \in Contexts : evictNursery(cx)

SpecNursery == HeapInit /\ [][NurseryNext]_vars

\* The variables the root registries leave alone.
nonrootvars == <<zgvars, dvars, hvars, nvars, svars, avars, cvars, lvars, vvars, evars, fvars, kvars, wvars, mvars>>

\* Registration and removal of roots, interleaved with root traces.
RootsNext ==
    \/ \E k \in KindSet, id \in RootIds : PushRooted(k, id) /\ UNCHANGED nonrootvars
    \/ \E k \in KindSet : PopRooted(k) /\ UNCHANGED nonrootvars
    \/ \E id \in RootIds : addRoot(id) /\ UNCHANGED nonrootvars
    \/ \E id \in RootIds : removeRoot(id) /\ UNCHANGED nonrootvars
    \/ \E k \in KindSet, id \in RootIds : AddPersistentRoot(k, id) /\ UNCHANGED nonrootvars
    \/ finishPersistentRoots /\ UNCHANGED nonrootvars
    \/ \E traceOrMark \in {"TraceRuntime", "MarkRuntime"}, minorCollecting \in BOOLEAN,
          hashOrder \in Orders(rootsHash) :
          traceRuntimeCommon(traceOrMark, minorCollecting, hashOrder) /\ UNCHANGED nonrootvars

SpecRoots == RuntimeInit /\ [][RootsNext]_vars

\* Registration of the embedding's tracers and of raw roots, interleaved with
\* root traces.
TracersNext ==
    \/ \E t \in Tracers : addBlackRootsTracer(t) /\ UNCHANGED nonrootvars
    \/ \E t \in Tracers : removeBlackRootsTracer(t) /\ UNCHANGED nonrootvars
    \/ \E t \in Tracers \cup {NoTracer} : setGrayRootsTracer(t) /\ UNCHANGED nonrootvars
    \/ \E id \in RootIds : addRoot(id) /\ UNCHANGED nonrootvars
    \/ \E id \in RootIds : removeRoot(id) /\ UNCHANGED nonrootvars
    \/ \E traceOrMark \in {"TraceRuntime", "MarkRuntime"}, minorCollecting \in BOOLEAN,
          hashOrder \in Orders(rootsHash) :
          traceRuntimeCommon(traceOrMark, minorCollecting, hashOrder) /\ UNCHANGED nonrootvars

SpecTracers == RuntimeInit /\ [][TracersNext]_vars

\* The mutator, the marking scheme and the atom bitmaps, interleaved with
\* whole-heap cleanups.
SweepNext ==
    \/ \E c \in Cells \ poisoned, i \in SlotIdx, next \in (Cells \ poisoned) \cup {Null} :
          WriteSlot(c, i, next) /\ UNCHANGED <<rtvars, xvars>>
    \/ \E c \in Cells \ poisoned : markObject(c) /\ UNCHANGED <<rtvars, xvars>>
    \/ \E z \in Zones, thing \in Cells : markAtom(z, thing) /\ UNCHANGED <<rtvars, nvars, rootvars, avars, cvars, lvars, vvars, evars, fvars, kvars, wvars, mvars>>
    \/ \E target \in Zones, source \in Zones :
          adoptMarkedAtoms(target, source) /\ UNCHANGED <<rtvars, nvars, rootvars, avars, cvars, lvars, vvars, evars, fvars, kvars, wvars, mvars>>
    \/ masterCleanupAfterGC /\ UNCHANGED <<rtvars, nvars, rootvars, avars, cvars, lvars, vvars, evars, mvars>>

SpecSweep == HeapInit /\ [][SweepNext]_vars

\* The variables the allocator leaves alone.
nonallocvars == <<zgvars, dvars, hvars, nvars, rootvars, svars, cvars, lvars, vvars, evars, fvars, kvars, wvars, mvars>>

\* Allocation calls of the running context, interleaved with the regions and
\* settings that bear on them and with minor collections.
AllocNext ==
    \/ \E ep \in EntryPoints, kind \in Kinds, heap \in InitialHeaps, allowGC \in BOOLEAN,
          ok \in BOOLEAN, ub \in BOOLEAN :
          AllocateBegin(ep, kind, heap, allowGC, ok, ub) /\ UNCHANGED nonallocvars
    \/ AllocateEnd /\ UNCHANGED nonallocvars
    \/ \E b \in BOOLEAN : setInUnsafeRegion(b) /\ UNCHANGED nonallocvars
    \/ AutoDisableGenerationalGC /\ UNCHANGED nonallocvars
    \/ AutoDisableGenerationalGC_dtor /\ UNCHANGED nonallocvars
    \/ AutoSuppressGC /\ UNCHANGED nonallocvars
    \/ AutoSuppressGC_dtor /\ UNCHANGED nonallocvars
    \/ \E cx \in Contexts : evictNursery(cx)

SpecAlloc == RuntimeInit /\ [][AllocNext]_vars

\* Compartments created one after another with any zone specifier.
CompartmentsNext ==
    \E zoneSpec \in ZoneSpecs, zonePointer \in {0} \cup ZoneIds \cup GroupIds :
        /\ NewCompartment(zoneSpec, zonePointer)
        /\ UNCHANGED <<zgvars, dvars, hvars, nvars, rootvars, svars, avars, lvars, vvars, evars, fvars, kvars, wvars, mvars>>

SpecCompartments == RuntimeInit /\ [][CompartmentsNext]_vars

nonlockvars == <<zgvars, dvars, hvars, nvars, rootvars, svars, avars, cvars, vvars, evars, fvars, kvars, wvars, mvars>>

\* Threads taking and releasing the locks at the places the code does.
LocksNext ==
    \/ \E t \in Contexts, site \in GCLockSites :
          AutoLockGC(t, site) /\ UNCHANGED nonlockvars
    \/ \E t \in Contexts : AutoLockGC_dtor(t) /\ UNCHANGED nonlockvars
    \/ \E t \in Contexts, site \in ExclusiveAccessSites :
          AutoLockForExclusiveAccess(t, site) /\ UNCHANGED nonlockvars
    \/ \E t \in Contexts : AutoLockForExclusiveAccess_dtor(t) /\ UNCHANGED nonlockvars
    \/ \E t \in Contexts : AutoLockHelperThreadState(t) /\ UNCHANGED nonlockvars
    \/ \E t \in Contexts : AutoLockHelperThreadState_dtor(t) /\ UNCHANGED nonlockvars

SpecLocks == RuntimeInit /\ [][LocksNext]_vars

nonrangevars == <<zgvars, dvars, hvars, nvars, rootvars, svars, avars, cvars, lvars, evars, fvars, kvars, wvars, mvars>>

\* A native object of any shape with one entry for it on the mark stack.
RangesInit ==
    /\ ownerContext_ = 1
    /\ enterCount = 1
    /\ useExclusiveLocking = FALSE
    /\ cxpc = [cx \in Contexts |-> "out"]
    /\ inside = [cx \in Contexts |-> IF cx = 1 THEN 1 ELSE 0]
    /\ crashed = FALSE
    /\ incrementalState = "NotActive"
    /\ lastCall = "none"
    /\ slots = [c \in Cells |-> [i \in SlotIdx |-> Null]]
    /\ roots = [r \in 1..NumRoots |-> 1]
    /\ markBits = {}
    /\ storeBuffer = {}
    /\ started = FALSE
    /\ rootsTraced = {}
    /\ stack = <<>>
    /\ capacity = baseCapacity
    /\ mpc = "idle"
    /\ obj = Null
    /\ vp = 1
    /\ drainResult = "none"
    /\ delayed = {}
    /\ overflowed = {}
    /\ pushCount = [c \in Cells |-> 0]
    /\ lastMark = NoMark
    /\ snapshot = {}
    /\ overwritten = {}
    /\ writes = 0
    /\ minorGCAt = -1
    /\ stackRoots = [k \in KindSet |-> <<>>]
    /\ rootsHash = {}
    /\ heapRoots = [k \in KindSet |-> <<>>]
    /\ blackRootTracers = <<>>
    /\ grayRootTracer = NoTracer
    /\ regOrder = <<>>
    /\ removed = {}
    /\ blackRegistered = {}
    /\ grayRegistered = NoTracer
    /\ traced = "no"
    /\ visited = <<>>
    /\ tracersCalled = <<>>
    /\ poisoned = {}
    /\ gcNumber = 0
    /\ sweptAt = [c \in Cells |-> 0]
    /\ markedAtoms = [z \in Zones |-> {}]
    /\ flags_ = [c \in AllocCells |-> 0]
    /\ inHeap = {}
    /\ published = {}
    /\ acall = NoCall
    /\ alog = NoLog
    /\ enabled = 0
    /\ inUnsafeRegion = FALSE
    /\ generationalDisabled = FALSE
    /\ disableDepth = 0
    /\ zoneGroup = [z \in ZoneIds |-> 0]
    /\ gcGroups = {}
    /\ groupZones = [g \in GroupIds |-> {}]
    /\ exclusiveGroups = {}
    /\ compartments = <<>>
    /\ systemZone = 0
    /\ systemZoneGroup = 0
    /\ omrZone = 0
    /\ clog = NoCompartmentCall
    /\ lheld = [t \in Contexts |-> <<>>]
    /\ lpc = [t \in Contexts |-> NotLocking]
    /\ nfixed \in 0..MaxFixed
    /\ slotSpan \in 0..MaxSpan
    /\ initLen \in 0..MaxInitLen
    /\ isNative = TRUE
    /\ isArray \in BOOLEAN
    /\ rstack = <<RangeObject>>
    /\ rpc = "mutator"
    /\ rcur = NoRange
    /\ budgetOver = FALSE
    /\ rlast = NoRestore
    /\ ncLog = [calls |-> 0, ret |-> "none"]
    /\ allocKind = [c \in Cells |-> OBJECT0]
    /\ finalizeCount = [c \in Cells |-> 0]
    /\ sweepLog = <<>>
    /\ collecting = [z \in Zones |-> FALSE]
    /\ gcWeakKeys = [z \in Zones |-> 0]
    /\ lastIter = [visited |-> <<>>, collecting |-> {}]
    /\ weakSlot = [edge \in WeakEdges |-> Null]
    /\ gcWeakRefs = [z \in Zones |-> <<>>]
    /\ nulledEdges = {}
    /\ stack_ = <<>>
    /\ end_ = 1
    /\ baseCapacity_ = 1
    /\ maxCapacity_ = 1
    /\ lastOp = [op |-> "init", count |-> 0, ok |-> TRUE]
    /\ reallocFailed = FALSE

\* Slices of marking that run out of budget, with the mutator changing the
\* object's storage between them.
RangesNext ==
    \/ \E over \in BOOLEAN : rangeDrainMarkStack(over) /\ UNCHANGED nonrangevars
    \/ budgetExhausted /\ UNCHANGED nonrangevars
    \/ processMarkStackTop /\ UNCHANGED nonrangevars
    \/ \E child \in BOOLEAN : rangeScanValueArray(child) /\ UNCHANGED nonrangevars
    \/ rangeScanObj /\ UNCHANGED nonrangevars
    \/ \E n \in 0..MaxSpan : reallocateSlots(n) /\ UNCHANGED nonrangevars
    \/ \E n \in 0..MaxInitLen : reallocateElements(n) /\ UNCHANGED nonrangevars
    \/ swapToNonNative /\ UNCHANGED nonrangevars
    \/ rangeMarkAndPush /\ UNCHANGED nonrangevars

SpecRanges == RangesInit /\ [][RangesNext]_vars

\* Contexts entering and leaving the zone group and creating compartments in it.
GroupNext ==
    \/ \E cx \in Contexts : enter(cx) /\ UNCHANGED <<dvars, hvars, xvars>>
    \/ \E cx \in Contexts : enterResume(cx) /\ UNCHANGED <<dvars, hvars, xvars>>
    \/ \E cx \in Contexts : leave(cx) /\ UNCHANGED <<dvars, hvars, xvars>>
    \/ setUseExclusiveLocking /\ UNCHANGED <<dvars, hvars, xvars>>
    \/ \E cx \in Contexts, ret \in NewCompartmentReturns :
          /\ NewCompartmentInGroup(cx, ret)
          /\ UNCHANGED <<dvars, hvars, nvars, rootvars, svars, avars, cvars, lvars, vvars, fvars, kvars, wvars, mvars>>

SpecGroup == RuntimeInit /\ [][GroupNext]_vars

\* A context spinning in enter's wait loop is resumed again and again by the
\* embedding, and an owner that can leave is not held back forever.
SpecGroupFair ==
    /\ SpecGroup
    /\ \A cx \in Contexts :
          /\ WF_vars(enterResume(cx) /\ UNCHANGED <<dvars, hvars, xvars>>)
          /\ WF_vars(leave(cx) /\ UNCHANGED <<dvars, hvars, xvars>>)

\* Heaps of cells of every sampled alloc kind, marked and cleaned up.
FinalizeInit ==
    /\ ownerContext_ = 1
    /\ enterCount = 1
    /\ useExclusiveLocking = FALSE
    /\ cxpc = [cx \in Contexts |-> "out"]
    /\ inside = [cx \in Contexts |-> IF cx = 1 THEN 1 ELSE 0]
    /\ crashed = FALSE
    /\ incrementalState = "NotActive"
    /\ lastCall = "none"
    /\ slots = [c \in Cells |-> [i \in SlotIdx |-> Null]]
    /\ roots \in [1..NumRoots -> Cells]
    /\ markBits = {}
    /\ storeBuffer = {}
    /\ started = FALSE
    /\ rootsTraced = {}
    /\ stack = <<>>
    /\ capacity = baseCapacity
    /\ mpc = "idle"
    /\ obj = Null
    /\ vp = 1
    /\ drainResult = "none"
    /\ delayed = {}
    /\ overflowed = {}
    /\ pushCount = [c \in Cells |-> 0]
    /\ lastMark = NoMark
    /\ snapshot = {}
    /\ overwritten = {}
    /\ writes = 0
    /\ minorGCAt = -1
    /\ stackRoots = [k \in KindSet |-> <<>>]
    /\ rootsHash = {}
    /\ heapRoots = [k \in KindSet |-> <<>>]
    /\ blackRootTracers = <<>>
    /\ grayRootTracer = NoTracer
    /\ regOrder = <<>>
    /\ removed = {}
    /\ blackRegistered = {}
    /\ grayRegistered = NoTracer
    /\ traced = "no"
    /\ visited = <<>>
    /\ tracersCalled = <<>>
    /\ poisoned = {}
    /\ gcNumber = 0
    /\ sweptAt = [c \in Cells |-> 0]
    /\ markedAtoms = [z \in Zones |-> {}]
    /\ flags_ = [c \in AllocCells |-> 0]
    /\ inHeap = {}
    /\ published = {}
    /\ acall = NoCall
    /\ alog = NoLog
    /\ enabled = 0
    /\ inUnsafeRegion = FALSE
    /\ generationalDisabled = FALSE
    /\ disableDepth = 0
    /\ zoneGroup = [z \in ZoneIds |-> 0]
    /\ gcGroups = {}
    /\ groupZones = [g \in GroupIds |-> {}]
    /\ exclusiveGroups = {}
    /\ compartments = <<>>
    /\ systemZone = 0
    /\ systemZoneGroup = 0
    /\ omrZone = 0
    /\ clog = NoCompartmentCall
    /\ lheld = [t \in Contexts |-> <<>>]
    /\ lpc = [t \in Contexts |-> NotLocking]
    /\ nfixed = 1
    /\ slotSpan = MaxSpan
    /\ initLen = MaxInitLen
    /\ isNative = TRUE
    /\ isArray = TRUE
    /\ rstack = <<RangeObject>>
    /\ rpc = "mutator"
    /\ rcur = NoRange
    /\ budgetOver = FALSE
    /\ rlast = NoRestore
    /\ ncLog = [calls |-> 0, ret |-> "none"]
    /\ allocKind \in [Cells -> KindSample]
    /\ finalizeCount = [c \in Cells |-> 0]
    /\ sweepLog = <<>>
    /\ collecting = [z \in Zones |-> FALSE]
    /\ gcWeakKeys = [z \in Zones |-> 0]
    /\ lastIter = [visited |-> <<>>, collecting |-> {}]
    /\ weakSlot = [edge \in WeakEdges |-> Null]
    /\ gcWeakRefs = [z \in Zones |-> <<>>]
    /\ nulledEdges = {}
    /\ stack_ = <<>>
    /\ end_ = 1
    /\ baseCapacity_ = 1
    /\ maxCapacity_ = 1
    /\ lastOp = [op |-> "init", count |-> 0, ok |-> TRUE]
    /\ reallocFailed = FALSE

SpecFinalize == FinalizeInit /\ [][SweepNext]_vars

\* The variables the marker's start and stop leave alone, the zones' tables apart.
nonzonevars == <<rtvars, nvars, rootvars, svars, avars, cvars, lvars, vvars, evars, fvars, wvars, mvars>>

\* Marking sessions over zones that are selected for collection and released.
ZonesNext ==
    \/ start /\ UNCHANGED <<rtvars, xvars>>
    \/ stop /\ UNCHANGED nonzonevars
    \/ leaveWeakMarkingMode /\ UNCHANGED <<hvars, nonzonevars>>
    \/ \E z \in Zones, b \in BOOLEAN : setCollecting(z, b) /\ UNCHANGED <<hvars, nonzonevars>>
    \/ \E z \in Zones : addWeakKey(z) /\ UNCHANGED <<hvars, nonzonevars>>

SpecZones == HeapInit /\ [][ZonesNext]_vars

\* The variables that noting and rewriting a weak edge leave alone.
nonweakvars == <<rtvars, hvars, nvars, rootvars, svars, avars, cvars, lvars, vvars, evars, fvars, kvars, mvars>>

\* Marking with weak edges being noted and rewritten, and whole-heap cleanups.
WeakNext ==
    \/ \E c \in Cells \ poisoned : markObject(c) /\ UNCHANGED <<rtvars, xvars>>
    \/ \E edge \in WeakEdges : noteWeakEdge(edge) /\ UNCHANGED nonweakvars
    \/ \E edge \in WeakEdges, c \in (Cells \ poisoned) \cup {Null} :
          writeWeakEdge(edge, c) /\ UNCHANGED nonweakvars
    \/ \E z \in Zones : addWeakKey(z) /\ UNCHANGED <<hvars, nonzonevars>>
    \/ masterCleanupAfterGC /\ UNCHANGED <<rtvars, nvars, rootvars, avars, cvars, lvars, vvars, evars, mvars>>

SpecWeak == HeapInit /\ [][WeakNext]_vars

\* Registration of tracers and raw roots, interleaved with root traces made
\* for marking and root traces of the whole runtime.
ScanRootsNext ==
    \/ \E t \in Tracers : addBlackRootsTracer(t) /\ UNCHANGED nonrootvars
    \/ \E t \in Tracers : removeBlackRootsTracer(t) /\ UNCHANGED nonrootvars
    \/ \E t \in Tracers \cup {NoTracer} : setGrayRootsTracer(t) /\ UNCHANGED nonrootvars
    \/ \E id \in RootIds : addRoot(id) /\ UNCHANGED nonrootvars
    \/ \E id \in RootIds : removeRoot(id) /\ UNCHANGED nonrootvars
    \/ \E traceOrMark \in {"TraceRuntime", "MarkRuntime"}, minorCollecting \in BOOLEAN,
          hashOrder \in Orders(rootsHash) :
          traceRuntimeCommon(traceOrMark, minorCollecting, hashOrder) /\ UNCHANGED nonrootvars
    \/ \E hashOrder \in Orders(rootsHash) : scanRoots(hashOrder) /\ UNCHANGED nonrootvars

SpecScanRoots == RuntimeInit /\ [][ScanRootsNext]_vars

\* The variables the mark stack's own operations leave alone.
nonstackvars == <<rtvars, hvars, nvars, rootvars, svars, avars, cvars, lvars, vvars, evars, fvars, kvars, wvars>>

\* A mark stack being pushed to, popped, reset and reconfigured.
MarkStackNext ==
    \/ \E tag \in {"ObjectTag", "ValueArrayTag"}, reallocOk \in BOOLEAN :
          MarkStack_push(tag, reallocOk) /\ UNCHANGED nonstackvars
    \/ MarkStack_pop /\ UNCHANGED nonstackvars
    \/ \E reallocOk \in BOOLEAN : MarkStack_reset(reallocOk) /\ UNCHANGED nonstackvars
    \/ \E maxCapacity \in 1..MaxStackCapacity, reallocOk \in BOOLEAN :
          setMaxCapacity(maxCapacity, reallocOk) /\ UNCHANGED nonstackvars
    \/ \E mode \in GCModes : setGCMode(mode) /\ UNCHANGED nonstackvars

SpecMarkStack == HeapInit /\ [][MarkStackNext]_vars

\* The collector is given every chance to finish a drain it began.
SpecHeapFair == SpecHeap /\ WF_vars(MarkerStep)

(* ======================================================================= *)
(* Properties                                                              *)
(* ======================================================================= *)

\* C1: snapshot-at-the-beginning - when a marking slice that began with the
\* roots traced has run to completion, every cell that was reachable from the
\* roots when the slice began is marked.
C1_SnapshotMarkedAtSliceEnd ==
    drainResult = "true" => snapshot \subseteq markBits

\* C2: at most one context is inside the zone group at any time, and it is
\* the owner; no other context's enter has completed while it is inside.
C2_AtMostOneInside ==
    \A c1 \in Contexts : inside[c1] > 0 =>
        /\ ownerContext_ = c1
        /\ \A c2 \in Contexts : inside[c2] > 0 => c2 = c1

\* C2 witness: one context is inside while another is blocked in enter.
C2_Witness ==
    \E c1, c2 \in Contexts :
        c1 # c2 /\ inside[c1] > 0 /\ ownerContext_ = c1 /\ cxpc[c2] = "yield"

CycleStep(a, b) ==
    \E k \in 1..Len(GCSTATES) : GCSTATES[k] = a /\ GCSTATES[(k % Len(GCSTATES)) + 1] = b

C4_DrainTerminates == (mpc = "loop") ~> (mpc = "idle")

\* C5: during one collection no cell is pushed on the mark stack twice.
C5_PushedAtMostOnce == \A c \in Cells : pushCount[c] <= 1

\* C6: marking a cell whose mark bit is already set reports it as not newly
\* marked (and so pushes nothing).
C6_MarkIdempotent ==
    (lastMark.cell # Null /\ lastMark.wasMarked) => ~lastMark.result

\* C7: drainMarkStack returns true only with an empty mark stack and no
\* delayed-marking work left.
C7_CompleteOnlyWhenDrained ==
    [][(mpc = "loop" /\ mpc' = "idle" /\ drainResult' = "true")
         => (isEmpty(stack') /\ delayed' = {})]_vars

\* C7 witness: a drain that processed pushed cells has reported completion.
C7_Witness ==
    /\ drainResult = "true"
    /\ mpc = "idle"
    /\ isEmpty(stack)
    /\ \E c \in Cells : pushCount[c] > 0

\* C8: a cell whose mark-stack entry could not be pushed is recorded for
\* delayed marking until it is scanned.
C8_OverflowRecorded == overflowed \subseteq delayed

\* C9: a previous slot value overwritten while the zone is marking and the
\* heap is not collecting has been marked by the pre-write barrier.
C9_PreBarrierMarksPrior == overwritten \subseteq markBits

C11_NoTenuredToNurseryAfterMinorGC ==
    minorGCAt = writes =>
        \A c \in Reachable \ nurseryCells : \A i \in SlotIdx :
            slots[c][i] = Null \/ ~IsInsideNursery(slots[c][i])

Count(seq, x) == Cardinality({k \in DOMAIN seq : seq[k] = x})

Position(seq, x) == CHOOSE k \in DOMAIN seq : seq[k] = x

\* C12: a root trace presents every registered root to the tracer exactly
\* once and presents nothing that is not registered.
C12_EveryRootExactlyOnce ==
    traced # "no" =>
        \A id \in RootIds : Count(visited, id) = (IF id \in registered THEN 1 ELSE 0)

\* C12 witness: a trace has visited roots of all three registries.
C12_Witness ==
    /\ traced # "no"
    /\ rootsHash # {}
    /\ \E k \in KindSet : stackRoots[k] # <<>>
    /\ \E k \in KindSet : heapRoots[k] # <<>>
    /\ Len(visited) = NumRootIds

\* C13: within one root trace the roots are presented in the order in which
\* they were registered.
C13_RegistrationOrder ==
    traced # "no" =>
        \A i, j \in DOMAIN visited :
            i < j => Position(regOrder, visited[i]) < Position(regOrder, visited[j])

\* C14: a root trace visits every persistent root that is registered and not
\* removed, and no persistent root that has been removed.
C14_PersistentVisitedUntilRemoved ==
    traced # "no" =>
        /\ \A k \in KindSet : Range(heapRoots[k]) \subseteq Range(visited)
        /\ removed \cap Range(visited) = {}

\* C14 witness: a trace ran after one persistent root was removed and while
\* another was registered.
C14_Witness ==
    /\ traced # "no"
    /\ removed # {}
    /\ \E k \in KindSet : heapRoots[k] # <<>> /\ Range(heapRoots[k]) \subseteq Range(visited)

\* C15: a root trace of the whole runtime calls every registered black roots
\* tracer and the installed gray roots tracer.
C15_RegisteredTracersCalled ==
    traced = "trace" =>
        /\ blackRegistered \subseteq Range(tracersCalled)
        /\ grayRegistered # NoTracer => grayRegistered \in Range(tracersCalled)

C20_BitmapAtomsPresent ==
    gcNumber > 0 => \A z \in Zones : markedAtoms[z] \cap poisoned = {}

\* C21: after a full collection an atom is alive exactly when the atom bitmap
\* of at least one zone names it.
C21_AtomAliveIffNamed ==
    gcNumber > 0 =>
        \A a \in AtomCells : (a \notin poisoned) <=> (\E z \in Zones : a \in markedAtoms[z])

\* C26: reentrancy of a zone group is counted: a context with n >= 1 entries
\* it has not yet left owns the group and the group's count is n; once it has
\* left as often as it entered, the group is unowned.
C26_ReentrancyCounted ==
    /\ \A cx \in Contexts :
          inside[cx] >= 1 => ownerContext_ = cx /\ enterCount = inside[cx]
    /\ (\A cx \in Contexts : inside[cx] = 0) => ownerContext_ = NoContext /\ enterCount = 0

\* A context has left as often as it entered and a context waits to enter.
C26_Witness ==
    /\ ownerContext_ = NoContext
    /\ enterCount = 0
    /\ \E cx \in Contexts : cxpc[cx] = "yield"

C24_CheckedBeforeAllocation ==
    /\ acall.pc = "obj" => acall.checked
    /\ alog.result \in AllocCells => alog.checked

\* C25: no allocation call hands out a cell while the context is inside an
\* unsafe region.
C25_RefusesInUnsafeRegion ==
    alog.result \in AllocCells => ~alog.unsafe

C29_DisabledAllocatesTenured ==
    /\ []((alog.result \in AllocCells /\ alog.disabled) => alog.path = "tenured")
    /\ [][(minorGCAt' # minorGCAt \/ lastCall' # lastCall) =>
             UNCHANGED <<hvars, svars, avars>>]_vars

\* C30: NewCompartment places the new compartment as its zone specifier says:
\* System in the system zone and the system group, Existing in the given zone
\* and that zone's group, NewZoneInNewZoneGroup in a fresh zone of a fresh
\* group, NewZoneInSystemZoneGroup in a fresh zone of the system group and
\* NewZoneInExistingZoneGroup in a fresh zone of the given group; the zone
\* always belongs to the group.
C30_PlacedByZoneSpec ==
    clog.zoneSpec # "none" =>
        /\ zoneGroup[clog.zone] = clog.group
        /\ clog.zoneSpec = "SystemZone" =>
              clog.zone = systemZone /\ clog.group = systemZoneGroup
        /\ clog.zoneSpec = "ExistingZone" => clog.zone = clog.zonePointer
        /\ clog.zoneSpec = "NewZoneInNewZoneGroup" => clog.zoneHolder /\ clog.groupHolder
        /\ clog.zoneSpec = "NewZoneInSystemZoneGroup" =>
              clog.zoneHolder /\ clog.group = systemZoneGroup
        /\ clog.zoneSpec = "NewZoneInExistingZoneGroup" =>
              clog.zoneHolder /\ clog.group = clog.zonePointer

\* C27: every thread takes its locks in the order helper-thread-state < GC <
\* exclusive-access: the locks a thread holds, in the order it took them, have
\* strictly increasing ranks.
C27_LockOrder ==
    \A t \in Contexts : \A i, j \in 1..Len(lheld[t]) :
        i < j => lockRank(lheld[t][i]) < lockRank(lheld[t][j])

\* C31: when a marking slice has ended, also because its budget ran out, no
\* ValueArrayTag entry is left on the mark stack: every value range in flight
\* has become a saved value array, so the mutator may reallocate slots and
\* elements between slices.
C31_NoValueArrayBetweenSlices ==
    rpc = "mutator" => \A k \in DOMAIN rstack : rstack[k].tag # "ValueArrayTag"

\* A slice ended over budget with two value ranges in flight, both saved.
C31_Witness ==
    /\ rpc = "mutator"
    /\ budgetOver
    /\ Cardinality({k \in DOMAIN rstack : rstack[k].tag = "SavedValueArrayTag"}) >= 2

InStorage(r) == 0 <= r.start /\ r.start <= r.end /\ r.end <= storageLength(r.kind)

\* C32: a saved value array is restored to a range inside the object's
\* current storage (an empty one when the object shrank below the saved
\* index) or replaced by the object itself; the range being scanned and
\* every value range on the stack lie inside the current storage.
C32_RestoredRangeInStorage ==
    /\ rpc = "scan_value_array" => InStorage(rcur)
    /\ \A k \in DOMAIN rstack : rstack[k].tag = "ValueArrayTag" => InStorage(rstack[k])
    /\ rlast.called =>
          IF rlast.ok
            THEN /\ rlast.pushed.tag = "ValueArrayTag"
                 /\ rlast.shrunk => rlast.pushed.start = rlast.pushed.end
            ELSE rlast.pushed = RangeObject

\* After the object shrank between slices, a saved range was restored as an
\* empty range and is about to be scanned.
C32_Witness ==
    /\ rlast.called /\ rlast.ok /\ rlast.shrunk
    /\ rpc = "scan_value_array"
    /\ rcur.start = rcur.end

\* C33: a call of NewCompartment in an existing zone group leaves the group's
\* owner and enter count as it found them, on success and on every failure
\* return.
C33_EnterMatchedByLeave ==
    [][ncLog' # ncLog => (ownerContext_' = ownerContext_ /\ enterCount' = enterCount)]_vars

\* C36: in every state of a zone group, its enter count is zero exactly when
\* it has no owner context.
C36_CountZeroIffUnowned == (enterCount = 0) <=> (ownerContext_ = NoContext)

\* The group is unowned again after a compartment was created in it.
C36_Witness == enterCount = 0 /\ ownerContext_ = NoContext /\ ncLog.ret = "forget"

\* A context is inside enter's wait loop of an exclusively locked group.
waiting(cx) == useExclusiveLocking /\ cxpc[cx] = "yield"

\* C37 as stated: with exclusive locking, whenever the owners keep giving the
\* group up (it is free again and again), every waiting context eventually
\* becomes the owner.
C37_WaiterEventuallyOwns ==
    \A cx \in Contexts :
        ([]<>(ownerContext_ = NoContext)) => (waiting(cx) ~> (ownerContext_ = cx))

\* C37 amended: with exclusive locking, a group that is free while a context
\* waits is eventually taken by some context, the waiter or another one; the
\* wait loop gives the waiter no precedence.
C37_FreeGroupIsTaken ==
    \A cx \in Contexts :
        (waiting(cx) /\ ownerContext_ = NoContext) ~> (ownerContext_ # NoContext)

\* A context other than the first owner holds the group while another waits.
C37_Witness ==
    /\ useExclusiveLocking
    /\ ownerContext_ \notin {NoContext, 1}
    /\ inside[ownerContext_] = 1
    /\ \E cx \in Contexts : cx # ownerContext_ /\ cxpc[cx] = "yield"

\* C35: post-collection cleanup finalizes every unmarked object, of every
\* object alloc kind, exactly once and before its memory is poisoned, and
\* never finalizes a marked cell.
C35_UnmarkedObjectsFinalizedOnce ==
    /\ \A c \in poisoned : IsObjectKind(allocKind[c]) => finalizeCount[c] = 1
    /\ \A k \in DOMAIN sweepLog :
          /\ sweepLog[k].op = "finalize" => ~sweepLog[k].marked
          /\ (sweepLog[k].op = "poison" /\ IsObjectKind(allocKind[sweepLog[k].cell])) =>
                \E j \in 1..(k - 1) :
                    sweepLog[j].op = "finalize" /\ sweepLog[j].cell = sweepLog[k].cell

\* C34: iterating with GCZonesIter visits every zone that is being collected
\* exactly once and visits no zone that is not being collected.
C34_VisitsCollectedZonesOnce ==
    /\ {lastIter.visited[k] : k \in DOMAIN lastIter.visited} = lastIter.collecting
    /\ Len(lastIter.visited) = Cardinality(lastIter.collecting)

\* C39: after post-collection cleanup no weak edge recorded during marking
\* still points to an unmarked cell (each such edge is null), and every zone's
\* weak-reference list and weak-key table are empty.
C39_WeakEdgesSwept ==
    [][gcNumber' # gcNumber =>
          /\ \A edge \in recordedEdges : weakSlot'[edge] = Null \/ weakSlot'[edge] \in markBits'
          /\ \A z \in Zones : gcWeakRefs'[z] = <<>> /\ gcWeakKeys'[z] = 0]_vars

\* A cleanup has set a recorded weak edge to null and emptied the lists.
C39_Witness ==
    /\ gcNumber > 0
    /\ nulledEdges # {}
    /\ \A edge \in nulledEdges : weakSlot[edge] = Null
    /\ \A z \in Zones : gcWeakRefs[z] = <<>> /\ gcWeakKeys[z] = 0

GrowthDoublesOrClamps ==
    (lastOp'.op = "push" /\ end_' > end_) => end_' = Min(maxCapacity_, 2 * end_)

\* A push that would need more words than the maximum fails and grows nothing.
PushBeyondMaximumFails ==
    (lastOp' # lastOp /\ lastOp'.op = "push" /\ position(stack_) + lastOp'.count > maxCapacity_)
        => (~lastOp'.ok /\ stack_' = stack_ /\ end_' = end_)

\* A push that finds no room and would need more words than the maximum fails
\* and grows nothing.
PushNeedingGrowthBeyondMaximumFails ==
    (/\ lastOp' # lastOp /\ lastOp'.op = "push"
     /\ position(stack_) + lastOp'.count > end_
     /\ position(stack_) + lastOp'.count > maxCapacity_)
        => (~lastOp'.ok /\ stack_' = stack_ /\ end_' = end_)

\* C38 as stated: the mark stack's capacity never exceeds its configured
\* maximum; each growth doubles the capacity or clamps it to the maximum, and
\* a push that would need more than the maximum fails instead of growing.
C38_CapacityWithinMaximum ==
    /\ [](end_ <= maxCapacity_)
    /\ [][GrowthDoublesOrClamps /\ PushBeyondMaximumFails]_vars

\* C38 amended: growth never takes the capacity above the maximum (each growth
\* by a push doubles the capacity or clamps it to the maximum, and a push that
\* finds no room and would need more than the maximum fails instead of
\* growing); the capacity exceeds the maximum only after a reset kept the
\* existing stack because reallocating it failed.
C38_GrowthWithinMaximum ==
    /\ [](end_ > maxCapacity_ => reallocFailed)
    /\ [][(end_' > end_ => end_' <= maxCapacity_')
          /\ GrowthDoublesOrClamps /\ PushNeedingGrowthBeyondMaximumFails]_vars

\* The stack has grown to a clamped capacity and a further push has failed.
C38_Witness ==
    /\ lastOp.op = "push" /\ ~lastOp.ok
    /\ end_ = maxCapacity_ /\ end_ > baseCapacity_
    /\ position(stack_) + lastOp.count > maxCapacity_

====
